---- MODULE Spec2Model ----
(***************************************************************************)
(* Verification model of network-monitor (btxTruong/network-monitor).      *)
(*                                                                         *)
(* Rust strings are modelled as sequences of one-character strings, so     *)
(* that parsing, trimming, splitting and formatting are computed the way   *)
(* the code computes them.                                                    *)
(***************************************************************************)
EXTENDS Integers, Sequences, FiniteSets, TLC

VARIABLES
    \* updater.rs, is_newer_version under test
    ver_a, ver_b, ver_c, ver_out,
    \* icons.rs: the flag table, two looked-up codes and the lookups' results
    FLAGS, flag_code, flag_code2, flag_out,
    \* whether dirs::config_dir() resolves (autostart.rs, updater.rs)
    has_config,
    \* autostart.rs: the autostart directory, the .desktop file, the running
    \* executable, the last call
    as_dir, as_file, as_exe, as_last,
    \* updater.rs: the clock, the build's overflow checks, the files
    \* last-check and update-available, the process, the clock steps taken,
    \* the times of the network requests of check_for_update, whether a
    \* forced check came since the last of them, whether a write of one of
    \* the two files failed, the last call
    now, overflow_checks, last_check_file, update_file, upd_pc, upd_ticks,
    upd_reqs, upd_forced_since, upd_write_failed, upd_last,
    \* network.rs: the watcher's position and locals, the network-event
    \* channel (buffer, receiver alive), the number of notifications
    \* delivered and the record of the last one
    w_pc, was_connected, last_connections, w_pending, net_q, net_rx_open,
    w_count, w_note, w_state,
    \* main.rs: the shared location cell, the command channel's buffer, the
    \* positions of main and of the periodic refresh task, main's
    \* current_autostart, the tray's three fields, the record of the last
    \* fetch completed, the command or event the select! took last,
    \* whether the last try_send of the menu found the channel full, and
    \* what became of the installer process RunUpdate starts, whether the
    \* tray service has been spawned, and the version the startup check
    \* found (main's new_version) until the tray has it
    geo_info, cmd_q, main_pc, per_pc, current_autostart,
    tray_autostart_enabled, tray_update_available, tray_checking_update,
    last_fetch, handled, cmd_dropped, update_proc, tray_spawned,
    new_version,
    \* main.rs, the periodic refresh task against the clock: its position,
    \* the time in seconds since main started, the interval's next deadline,
    \* the times the task started and started its fetches, the time the
    \* last fetch started, and the outcomes of the fetches completed
    p_pc, p_now, p_deadline, p_started, p_fetches, p_fetch_at, p_outcomes,
    \* main.rs, tray.rs, the location cell under its mutex: the task holding
    \* the lock, each task's position, the value each task is about to
    \* store or has read, the value of the last store completed
    lock_holder, cell_pc, cell_val, cell_last

verVars == <<ver_a, ver_b, ver_c, ver_out>>

flagVars == <<FLAGS, flag_code, flag_code2, flag_out>>

envVars == <<has_config>>

autoVars == <<as_dir, as_file, as_exe, as_last>>

updVars == <<now, overflow_checks, last_check_file, update_file, upd_pc,
             upd_ticks, upd_reqs, upd_forced_since, upd_write_failed,
             upd_last>>

watchVars == <<w_pc, was_connected, last_connections, w_pending, net_q,
               net_rx_open, w_count, w_note, w_state>>

mainVars == <<geo_info, cmd_q, main_pc, per_pc, current_autostart,
              tray_autostart_enabled, tray_update_available,
              tray_checking_update, last_fetch, handled, cmd_dropped,
              update_proc, tray_spawned, new_version>>

timerVars == <<p_pc, p_now, p_deadline, p_started, p_fetches, p_fetch_at,
               p_outcomes>>

cellVars == <<lock_holder, cell_pc, cell_val, cell_last>>

vars == <<envVars, verVars, flagVars, autoVars, watchVars, updVars, mainVars,
          timerVars, cellVars>>

\* What the actions of one component leave alone
verOthers == <<envVars, flagVars, autoVars, watchVars, updVars, mainVars,
               timerVars, cellVars>>

flagOthers == <<envVars, verVars, autoVars, watchVars, updVars, mainVars,
               timerVars, cellVars>>

autoOthers == <<envVars, verVars, flagVars, watchVars, updVars, mainVars,
               timerVars, cellVars>>

watchOthers == <<envVars, verVars, flagVars, autoVars, updVars, mainVars,
               timerVars, cellVars>>

updOthers == <<envVars, verVars, flagVars, autoVars, watchVars, mainVars,
               timerVars, cellVars>>

timerOthers == <<envVars, verVars, flagVars, autoVars, watchVars, updVars,
                 mainVars, cellVars>>

\* What the steps on the location cell leave alone: all but the cell
cellOthers == <<envVars, verVars, flagVars, autoVars, watchVars, updVars,
                timerVars, cmd_q, main_pc, per_pc, current_autostart,
                tray_autostart_enabled, tray_update_available,
                tray_checking_update, last_fetch, handled, cmd_dropped,
                update_proc, tray_spawned, new_version>>

\* What the actions of main.rs leave alone: the other components' own
\* state and records
mainOthers == <<envVars, verVars, flagVars, as_exe, as_last,
                was_connected, last_connections, w_pending, w_count,
                w_note, w_state,
                now, overflow_checks, upd_pc, upd_ticks, upd_reqs,
                upd_forced_since, upd_last, timerVars,
                cellVars>>

\* Option<T> and Result<T, E> values: None and failures are the empty
\* sequence, Some(x) and Ok(x) the one-element sequence <<x>>.
None == <<>>

Some(x) == <<x>>

IsSome(o) == o # <<>>

Unwrap(o) == o[1]

-----------------------------------------------------------------------------
(* Strings                                                                 *)

DigitChars == <<"0", "1", "2", "3", "4", "5", "6", "7", "8", "9">>

IsDigit(ch) == \E i \in 1..10 : DigitChars[i] = ch

DigitVal(ch) == (CHOOSE i \in 1..10 : DigitChars[i] = ch) - 1

IsWhitespace(ch) == ch \in {" ", "\n", "\t"}

RECURSIVE TrimStart(_)
TrimStart(s) ==
    IF s # <<>> /\ IsWhitespace(Head(s)) THEN TrimStart(Tail(s)) ELSE s

RECURSIVE TrimEnd(_)
TrimEnd(s) ==
    IF s # <<>> /\ IsWhitespace(s[Len(s)])
    THEN TrimEnd(SubSeq(s, 1, Len(s) - 1))
    ELSE s

\* str::trim
Trim(s) == TrimEnd(TrimStart(s))

\* str::trim_start_matches(ch): removes every leading occurrence of ch
RECURSIVE TrimStartMatches(_, _)
TrimStartMatches(s, ch) ==
    IF s # <<>> /\ Head(s) = ch THEN TrimStartMatches(Tail(s), ch) ELSE s

\* str::split(ch): always at least one piece; the pieces may be empty
RECURSIVE Split(_, _)
Split(s, ch) ==
    IF \A i \in 1..Len(s) : s[i] # ch
    THEN <<s>>
    ELSE LET i == CHOOSE k \in 1..Len(s) :
                      s[k] = ch /\ \A j \in 1..(k - 1) : s[j] # ch
         IN  <<SubSeq(s, 1, i - 1)>> \o Split(SubSeq(s, i + 1, Len(s)), ch)

RECURSIVE StripZeros(_)
StripZeros(s) ==
    IF s # <<>> /\ Head(s) = "0" THEN StripZeros(Tail(s)) ELSE s

\* Lexicographic "greater than" of two digit strings of the same length
RECURSIVE DigitsGreater(_, _)
DigitsGreater(s, t) ==
    IF s = <<>> THEN FALSE
    ELSE IF DigitVal(Head(s)) # DigitVal(Head(t))
         THEN DigitVal(Head(s)) > DigitVal(Head(t))
         ELSE DigitsGreater(Tail(s), Tail(t))

RECURSIVE DigitsValue(_)
DigitsValue(s) ==
    IF s = <<>> THEN 0
    ELSE 10 * DigitsValue(SubSeq(s, 1, Len(s) - 1)) + DigitVal(s[Len(s)])

U32MaxDigits == <<"4", "2", "9", "4", "9", "6", "7", "2", "9", "5">>

U64MaxDigits ==
    <<"1", "8", "4", "4", "6", "7", "4", "4", "0", "7",
      "3", "7", "0", "9", "5", "5", "1", "6", "1", "5">>

Err == <<>>

\* <unsigned>::from_str: an optional "+", then one or more decimal digits,
\* Err when empty, not all digits, or above the type's maximum (maxDigits).
ParseUnsigned(s, maxDigits) ==
    LET body == IF s # <<>> /\ Head(s) = "+" THEN Tail(s) ELSE s
        sig  == StripZeros(body)
    IN  IF body = <<>> \/ \E i \in 1..Len(body) : ~IsDigit(body[i])
        THEN Err
        ELSE IF Len(sig) > Len(maxDigits)
                \/ (Len(sig) = Len(maxDigits) /\ DigitsGreater(sig, maxDigits))
        THEN Err
        ELSE Some(DigitsValue(sig))

ParseU32(s) == ParseUnsigned(s, U32MaxDigits)

ParseU64(s) == ParseUnsigned(s, U64MaxDigits)

\* u64::to_string
RECURSIVE to_string(_)
to_string(n) ==
    IF n < 10 THEN <<DigitChars[n + 1]>>
    ELSE to_string(n \div 10) \o <<DigitChars[(n % 10) + 1]>>

-----------------------------------------------------------------------------
(* updater.rs: version comparison                                          *)

\* The closure `parse`: split on '.', keep the components that parse as u32
\* (filter_map drops the others, so later components move up).
RECURSIVE FilterParse(_)
FilterParse(parts) ==
    IF parts = <<>> THEN <<>>
    ELSE LET p == ParseU32(Head(parts))
         IN  \* Ok(n) contributes n, Err nothing
             p \o FilterParse(Tail(parts))

parse(v) == FilterParse(Split(v, "."))

\* parts.get(i).copied().unwrap_or(0), i counted from 0
PartAt(parts, i) == IF i + 1 <= Len(parts) THEN parts[i + 1] ELSE 0

\* The loop `for i in 0..3` of is_newer_version, from index i on
RECURSIVE NewerFrom(_, _, _)
NewerFrom(lp, cp, i) ==
    IF i >= 3 THEN FALSE
    ELSE IF PartAt(lp, i) > PartAt(cp, i) THEN TRUE
    ELSE IF PartAt(lp, i) < PartAt(cp, i) THEN FALSE
    ELSE NewerFrom(lp, cp, i + 1)

\* Mutant: the last component is never compared.
is_newer_version_two_parts(latest, current) ==
    LET lp == parse(latest)
        cp == parse(current)
    IN  \/ PartAt(lp, 0) > PartAt(cp, 0)
        \/ PartAt(lp, 0) = PartAt(cp, 0) /\ PartAt(lp, 1) > PartAt(cp, 1)

is_newer_version(latest, current) ==
    NewerFrom(parse(latest), parse(current), 0)

-----------------------------------------------------------------------------
(* Version strings fed to is_newer_version                                 *)

VerComponents == {<<"0">>, <<"2">>, <<"1", "0">>}

RECURSIVE JoinDots(_)
JoinDots(comps) ==
    IF comps = <<>> THEN <<>>
    ELSE IF Len(comps) = 1 THEN comps[1]
    ELSE comps[1] \o <<".">> \o JoinDots(Tail(comps))

\* "", "x", "x.y", "x.y.z" with x, y, z in VerComponents
VerInputs ==
    {JoinDots(cs) : cs \in UNION {[1..n -> VerComponents] : n \in 0..3}}

VerInit ==
    /\ ver_a \in VerInputs
    /\ ver_b \in VerInputs
    /\ ver_c \in VerInputs
    /\ ver_out = None

VerIdle ==
    /\ ver_a = <<>>
    /\ ver_b = <<>>
    /\ ver_c = <<>>
    /\ ver_out = None

\* Applies is_newer_version to the ordered pairs of the three inputs.
CompareVersions ==
    /\ ver_out = None
    /\ ver_out' = Some([ab |-> is_newer_version(ver_a, ver_b),
                   ba |-> is_newer_version(ver_b, ver_a),
                   bc |-> is_newer_version(ver_b, ver_c),
                   ac |-> is_newer_version(ver_a, ver_c),
                   aa |-> is_newer_version(ver_a, ver_a)])
    /\ UNCHANGED <<ver_a, ver_b, ver_c, verOthers>>

VerNext == CompareVersions

-----------------------------------------------------------------------------
(* icons.rs: flag lookup                                                   *)

\* char::to_lowercase on the letters the model uses; other characters map
\* to themselves
LowerOf ==
    [ch \in {"U", "S", "X"} |->
        CASE ch = "U" -> "u" [] ch = "S" -> "s" [] ch = "X" -> "x"]

CharToLower(ch) == IF ch \in DOMAIN LowerOf THEN LowerOf[ch] ELSE ch

\* str::to_lowercase
to_lowercase(s) == [i \in 1..Len(s) |-> CharToLower(s[i])]

\* The build-time table FLAGS of icons_data.rs: keys are lower-case codes,
\* values PNG bytes.  `first` is the key FLAGS.values().next() yields.
FlagTables ==
    LET us == <<"u", "s">>
        su == <<"s", "u">>
        xx == <<"x", "x">>
    IN  { [map |-> (us :> <<137, 80, 1>>) @@ (xx :> <<137, 80, 9>>), first |-> us],
          [map |-> (us :> <<137, 80, 1>>) @@ (xx :> <<137, 80, 9>>), first |-> xx],
          [map |-> (us :> <<137, 80, 1>>) @@ (su :> <<137, 80, 2>>), first |-> us],
          [map |-> (us :> <<137, 80, 1>>) @@ (su :> <<137, 80, 2>>), first |-> su],
          [map |-> (su :> <<137, 80, 2>>), first |-> su] }

\* Mutant: the code is looked up as given, without lower-casing.
get_flag_case_sensitive(country_code) ==
    IF country_code \in DOMAIN FLAGS.map THEN FLAGS.map[country_code]
    ELSE IF <<"x", "x">> \in DOMAIN FLAGS.map THEN FLAGS.map[<<"x", "x">>]
    ELSE IF DOMAIN FLAGS.map # {} THEN FLAGS.map[FLAGS.first]
    ELSE <<>>

\* get_flag(country_code).data
get_flag(country_code) ==
    LET code == to_lowercase(country_code)
    IN  IF code \in DOMAIN FLAGS.map THEN FLAGS.map[code]
        ELSE IF <<"x", "x">> \in DOMAIN FLAGS.map THEN FLAGS.map[<<"x", "x">>]
        ELSE IF DOMAIN FLAGS.map # {} THEN FLAGS.map[FLAGS.first]
        ELSE <<>>

FlagChars == {"u", "s", "x", "U", "S", "X"}

\* Every two-letter code over FlagChars, the empty code and a longer one
FlagCodes ==
    {<<a, b>> : a \in FlagChars, b \in FlagChars} \cup {<<>>, <<"U", "S", "A">>}

FlagInit ==
    /\ FLAGS \in FlagTables
    /\ flag_code \in FlagCodes
    /\ flag_code2 \in FlagCodes
    /\ flag_out = None

FlagIdle ==
    /\ FLAGS = [map |-> (<<"x", "x">> :> <<137, 80, 9>>), first |-> <<"x", "x">>]
    /\ flag_code = <<>>
    /\ flag_code2 = <<>>
    /\ flag_out = None

\* Looks both codes up.
GetFlags ==
    /\ flag_out = None
    /\ flag_out' = Some([one |-> get_flag(flag_code), two |-> get_flag(flag_code2)])
    /\ UNCHANGED <<FLAGS, flag_code, flag_code2, flagOthers>>

FlagNext == GetFlags

-----------------------------------------------------------------------------
(* autostart.rs                                                            *)

Ok == "Ok"

\* create_desktop_content(exec_path): the fixed template, one line each
create_desktop_content(exec_path) ==
    << "[Desktop Entry]",
       "Type=Application",
       "Name=Network Monitor",
       "Comment=Display network location country flag in system tray",
       <<"Exec=", exec_path>>,
       "Icon=network-workgroup",
       "Terminal=false",
       "Categories=Network;System;Monitor;",
       "X-GNOME-Autostart-enabled=true",
       "StartupNotify=false" >>

\* What std::env::current_exe() can give: a path, or an error (None)
ExePaths ==
    {"/usr/local/bin/network-monitor", "/usr/bin/network-monitor",
     "/opt/nm/network-monitor"}

\* is_autostart_enabled(): desktop_file_path().map(|p| p.exists()).unwrap_or(false)
is_autostart_enabled == IF has_config THEN IsSome(as_file) ELSE FALSE

\* setup_autostart(); dir_ok and write_ok are the outcomes of create_dir_all
\* and fs::write.  The result [ret, dir, file].
setup_autostart(dir_ok, write_ok) ==
    IF ~has_config THEN [ret |-> "NoHomeDir", dir |-> as_dir, file |-> as_file]
    ELSE IF as_exe = None THEN [ret |-> "NoExePath", dir |-> as_dir, file |-> as_file]
    ELSE IF ~as_dir /\ ~dir_ok THEN [ret |-> "Io", dir |-> as_dir, file |-> as_file]
    ELSE IF ~write_ok THEN [ret |-> "Io", dir |-> TRUE, file |-> as_file]
    ELSE [ret |-> Ok, dir |-> TRUE,
          file |-> Some(create_desktop_content(Unwrap(as_exe)))]

\* Mutant: remove_file is called without the exists() test, so a missing
\* file is reported as an I/O error.
remove_autostart_unguarded(remove_ok) ==
    IF ~has_config THEN [ret |-> "NoHomeDir", dir |-> as_dir, file |-> as_file]
    ELSE IF IsSome(as_file) /\ remove_ok
         THEN [ret |-> Ok, dir |-> as_dir, file |-> None]
         ELSE [ret |-> "Io", dir |-> as_dir, file |-> as_file]

\* remove_autostart(); remove_ok is the outcome of fs::remove_file
remove_autostart(remove_ok) ==
    IF ~has_config THEN [ret |-> "NoHomeDir", dir |-> as_dir, file |-> as_file]
    ELSE IF IsSome(as_file)
         THEN IF remove_ok
              THEN [ret |-> Ok, dir |-> as_dir, file |-> None]
              ELSE [ret |-> "Io", dir |-> as_dir, file |-> as_file]
         ELSE [ret |-> Ok, dir |-> as_dir, file |-> as_file]

AutoInit ==
    /\ has_config \in BOOLEAN
    /\ as_exe \in {None} \cup {Some(p) : p \in ExePaths}
    /\ as_dir \in BOOLEAN
    /\ as_file \in {None} \cup {Some(create_desktop_content(p)) : p \in ExePaths}
    /\ has_config = FALSE => (as_dir = FALSE /\ as_file = None)
    /\ IsSome(as_file) => as_dir
    /\ as_last = [op |-> "none", ret |-> Ok, dir |-> as_dir, file |-> as_file]

\* The periodic refresh task before SpecPeriodic follows it
TimerIdle ==
    /\ p_pc = "unspawned"
    /\ p_now = 0
    /\ p_deadline = 0
    /\ p_started = 0
    /\ p_fetches = <<>>
    /\ p_fetch_at = 0
    /\ p_outcomes = <<>>

\* The tasks that use the location cell: the periodic task and main store
\* into it, the tray's service reads it
Writers == {"periodic", "main"}

CellTasks == Writers \cup {"tray"}

\* The cell's users before SpecCell follows them
CellIdle ==
    /\ lock_holder = "none"
    /\ cell_pc = [t \in CellTasks |-> "idle"]
    /\ cell_val = [t \in CellTasks |-> None]
    /\ cell_last = None

EnvIdle == has_config = TRUE

AutoIdle ==
    /\ as_exe = Some("/usr/local/bin/network-monitor")
    /\ as_dir = FALSE
    /\ as_file = None
    /\ as_last = [op |-> "none", ret |-> Ok, dir |-> FALSE, file |-> None]

\* as_last: the call made last, its result, and the directory and file it
\* found.
SetupAutostart ==
    \E dir_ok \in BOOLEAN, write_ok \in BOOLEAN :
        LET r == setup_autostart(dir_ok, write_ok)
        IN  /\ as_dir' = r.dir
            /\ as_file' = r.file
            /\ as_last' = [op |-> "setup", ret |-> r.ret,
                           dir |-> as_dir, file |-> as_file]
            /\ UNCHANGED <<as_exe, autoOthers>>

RemoveAutostart ==
    \E remove_ok \in BOOLEAN :
        LET r == remove_autostart(remove_ok)
        IN  /\ as_dir' = r.dir
            /\ as_file' = r.file
            /\ as_last' = [op |-> "remove", ret |-> r.ret,
                           dir |-> as_dir, file |-> as_file]
            /\ UNCHANGED <<as_exe, autoOthers>>

IsAutostartEnabled ==
    /\ as_last' = [op |-> "is_enabled", ret |-> is_autostart_enabled,
                   dir |-> as_dir, file |-> as_file]
    /\ UNCHANGED <<as_exe, as_dir, as_file, autoOthers>>

\* Another installation of the program starts: current_exe() differs.
AutoRestart ==
    /\ as_exe' \in ({None} \cup {Some(p) : p \in ExePaths}) \ {as_exe}
    /\ as_last' = [op |-> "none", ret |-> Ok, dir |-> as_dir, file |-> as_file]
    /\ UNCHANGED <<as_dir, as_file, autoOthers>>

AutoNext ==
    \/ SetupAutostart
    \/ RemoveAutostart
    \/ IsAutostartEnabled
    \/ AutoRestart

-----------------------------------------------------------------------------
(* network.rs: the network watcher                                         *)

\* Notifications delivered to one watcher
MaxNotifications == 3

\* Largest number of active connections NetworkManager reports
MaxConnections == 3

\* mpsc::channel::<NetworkEvent>(16)
NetCapacity == 16

\* The u32 values NetworkManager's State property takes; 80 is a value the
\* program does not know
RawStates == {0, 10, 20, 30, 40, 50, 60, 70, 80}

\* impl From<u32> for NetworkState: the state as its discriminant
NetworkStateFrom(value) ==
    IF value \in {0, 10, 20, 30, 40, 50, 60, 70} THEN value ELSE 0

\* Mutant: ConnectedSite counts as connected too.
is_connected_site(state) == state >= 60

\* NetworkState::is_connected: matches!(self, ConnectedGlobal)
is_connected(state) == state = 70

\* What the state branch passes to tx.send for a readable new value
\* (lines 102-112)
StateChangeSends(new_val) ==
    LET conn == is_connected(NetworkStateFrom(new_val))
    IN  IF conn # was_connected
        THEN <<IF conn THEN "Connected" ELSE "Disconnected">>
        ELSE <<>>

\* Mutant: the count branch does not look at was_connected.
ConnChangeSends_any(new_count) ==
    IF new_count # last_connections THEN <<"Connected">> ELSE <<>>

\* What the count branch passes to tx.send for a readable new list
\* (lines 123-127)
ConnChangeSends(new_count) ==
    IF new_count # last_connections /\ was_connected
    THEN <<"Connected">>
    ELSE <<>>

NoNote == [kind |-> "none", val |-> None, was |-> FALSE, last |-> 0,
           prev |-> 0, sends |-> <<>>, off |-> None,
           base |-> FALSE, emitted |-> <<>>]

WatchInit ==
    /\ w_pc = "start"
    /\ was_connected = FALSE
    /\ last_connections = 0
    /\ w_pending = None
    /\ net_q = <<>>
    /\ net_rx_open = TRUE
    /\ w_count = 0
    /\ w_note = NoNote
    /\ w_state = 0

\* The watcher task was never started.
WatchIdle ==
    /\ w_pc = "unspawned"
    /\ was_connected = FALSE
    /\ last_connections = 0
    /\ w_pending = None
    /\ net_q = <<>>
    /\ net_rx_open = TRUE
    /\ w_count = 0
    /\ w_note = NoNote
    /\ w_state = 0

\* Lines 83-96: connect, read the baseline (a failed read gives 0), subscribe.
\* w_state keeps the last state read, here the baseline; w_note.base keeps
\* whether the baseline was connected.
WatcherStart ==
    /\ w_pc = "start"
    /\ \/ /\ w_pc' = "failed"
          /\ UNCHANGED <<was_connected, last_connections, w_state, w_note>>
       \/ \E st \in {None} \cup {Some(v) : v \in RawStates},
             ac \in {None} \cup {Some(n) : n \in 0..MaxConnections} :
            LET initial_state ==
                    NetworkStateFrom(IF IsSome(st) THEN Unwrap(st) ELSE 0)
            IN  /\ was_connected' = is_connected(initial_state)
                /\ last_connections' = (IF IsSome(ac) THEN Unwrap(ac) ELSE 0)
                /\ w_state' = initial_state
                /\ w_note' = [w_note EXCEPT
                                 !.base = is_connected(initial_state)]
                /\ w_pc' = "select"
    /\ UNCHANGED <<w_pending, net_q, net_rx_open, w_count, watchOthers>>

\* Lines 100-112: a state notification; change.get() may fail.  w_note
\* records the notification, was_connected and last_connections as they
\* were, the state read before (prev), the events passed to tx.send, and
\* the last count that was read while was_connected did not hold (off).
StateChanged ==
    /\ w_pc = "select"
    /\ w_count < MaxNotifications
    /\ w_count' = w_count + 1
    /\ \E change \in {None} \cup {Some(v) : v \in RawStates} :
         LET sends == IF IsSome(change) THEN StateChangeSends(Unwrap(change))
                      ELSE <<>>
         IN  /\ w_note' = [kind |-> "state", val |-> change,
                           was |-> was_connected, last |-> last_connections,
                           prev |-> w_state, sends |-> sends,
                           off |-> w_note.off, base |-> w_note.base,
                           emitted |-> w_note.emitted]
             /\ w_state' = (IF IsSome(change)
                            THEN NetworkStateFrom(Unwrap(change))
                            ELSE w_state)
             /\ IF sends # <<>>
                THEN /\ w_pc' = "send_state"
                     /\ w_pending' = Some(NetworkStateFrom(Unwrap(change)))
                ELSE /\ w_pc' = "select"
                     /\ w_pending' = None
    /\ UNCHANGED <<was_connected, last_connections, net_q, net_rx_open,
                   watchOthers>>

\* Mutant: was_connected is left as it was after the send.
SendStateEvent_forgetful ==
    /\ w_pc = "send_state"
    /\ IF ~net_rx_open
       THEN /\ w_pc' = "failed"
            /\ UNCHANGED <<net_q, w_note>>
       ELSE /\ Len(net_q) < NetCapacity
            /\ net_q' = Append(net_q, w_note.sends[1])
            /\ w_note' = [w_note EXCEPT
                             !.emitted = Append(@, w_note.sends[1])]
            /\ w_pc' = "select"
    /\ w_pending' = None
    /\ UNCHANGED <<was_connected, last_connections, net_rx_open, w_count,
                   w_state, watchOthers>>

\* Lines 113-116: tx.send(event).await waits for room in the channel and
\* fails when the receiver is gone; was_connected follows a successful send.
\* w_note.emitted keeps the events the channel has accepted.
SendStateEvent ==
    /\ w_pc = "send_state"
    /\ IF ~net_rx_open
       THEN /\ w_pc' = "failed"
            /\ UNCHANGED <<net_q, was_connected, w_note>>
       ELSE /\ Len(net_q) < NetCapacity
            /\ net_q' = Append(net_q, w_note.sends[1])
            /\ w_note' = [w_note EXCEPT
                             !.emitted = Append(@, w_note.sends[1])]
            /\ was_connected' = is_connected(Unwrap(w_pending))
            /\ w_pc' = "select"
    /\ w_pending' = None
    /\ UNCHANGED <<last_connections, net_rx_open, w_count, w_state,
                   watchOthers>>

\* Mutant: a count seen while not connected is not stored.
ConnectionsChanged_connected_only ==
    /\ w_pc = "select"
    /\ w_count < MaxNotifications
    /\ w_count' = w_count + 1
    /\ \E change \in {None} \cup {Some(n) : n \in 0..MaxConnections} :
         LET sends == IF IsSome(change) THEN ConnChangeSends(Unwrap(change))
                      ELSE <<>>
         IN  /\ w_note' = [kind |-> "conn", val |-> change,
                           was |-> was_connected, last |-> last_connections,
                           prev |-> w_state, sends |-> sends,
                           off |-> IF IsSome(change) /\ ~was_connected
                                   THEN change ELSE w_note.off,
                           base |-> w_note.base,
                           emitted |-> w_note.emitted]
             /\ IF sends # <<>>
                THEN /\ w_pc' = "send_conn"
                     /\ w_pending' = change
                     /\ UNCHANGED last_connections
                ELSE /\ w_pc' = "select"
                     /\ w_pending' = None
                     /\ last_connections' =
                            (IF IsSome(change) /\ was_connected
                             THEN Unwrap(change)
                             ELSE last_connections)
    /\ UNCHANGED <<was_connected, net_q, net_rx_open, w_state, watchOthers>>

\* Lines 120-131: an active-connections notification
ConnectionsChanged ==
    /\ w_pc = "select"
    /\ w_count < MaxNotifications
    /\ w_count' = w_count + 1
    /\ \E change \in {None} \cup {Some(n) : n \in 0..MaxConnections} :
         LET sends == IF IsSome(change) THEN ConnChangeSends(Unwrap(change))
                      ELSE <<>>
         IN  /\ w_note' = [kind |-> "conn", val |-> change,
                           was |-> was_connected, last |-> last_connections,
                           prev |-> w_state, sends |-> sends,
                           off |-> IF IsSome(change) /\ ~was_connected
                                   THEN change ELSE w_note.off,
                           base |-> w_note.base,
                           emitted |-> w_note.emitted]
             /\ IF sends # <<>>
                THEN /\ w_pc' = "send_conn"
                     /\ w_pending' = change
                     /\ UNCHANGED last_connections
                ELSE /\ w_pc' = "select"
                     /\ w_pending' = None
                     /\ last_connections' =
                            (IF IsSome(change) THEN Unwrap(change)
                             ELSE last_connections)
    /\ UNCHANGED <<was_connected, net_q, net_rx_open, w_state, watchOthers>>

\* Lines 127-131: the send of the count branch, then last_connections
SendConnEvent ==
    /\ w_pc = "send_conn"
    /\ IF ~net_rx_open
       THEN /\ w_pc' = "failed"
            /\ UNCHANGED <<net_q, last_connections, w_note>>
       ELSE /\ Len(net_q) < NetCapacity
            /\ net_q' = Append(net_q, "Connected")
            /\ w_note' = [w_note EXCEPT !.emitted = Append(@, "Connected")]
            /\ last_connections' = Unwrap(w_pending)
            /\ w_pc' = "select"
    /\ w_pending' = None
    /\ UNCHANGED <<was_connected, net_rx_open, w_count, w_state,
                   watchOthers>>

\* The receiving side of the channel takes the oldest event.
NetConsume ==
    /\ net_rx_open
    /\ net_q # <<>>
    /\ net_q' = Tail(net_q)
    /\ UNCHANGED <<w_pc, was_connected, last_connections, w_pending,
                   net_rx_open, w_count, w_note, w_state, watchOthers>>

\* main returns: net_rx is dropped, with whatever the channel still holds.
NetReceiverDropped ==
    /\ net_rx_open
    /\ net_rx_open' = FALSE
    /\ net_q' = <<>>
    /\ UNCHANGED <<w_pc, was_connected, last_connections, w_pending,
                   w_count, w_note, w_state, watchOthers>>

WatchNext ==
    \/ WatcherStart
    \/ StateChanged
    \/ SendStateEvent
    \/ ConnectionsChanged
    \/ SendConnEvent
    \/ NetConsume
    \/ NetReceiverDropped

-----------------------------------------------------------------------------
(* updater.rs: files, clock, u64 arithmetic                                *)

\* const CHECK_INTERVAL_SECS: u64 = 86400
CHECK_INTERVAL_SECS == 86400

\* env!("CARGO_PKG_VERSION")
VERSION == <<"0", ".", "1", ".", "0">>

\* A file of the configuration directory: absent, present but not readable
\* as text, or text
Absent == [kind |-> "absent", text |-> <<>>]

Unreadable == [kind |-> "unreadable", text |-> <<>>]

Text(t) == [kind |-> "text", text |-> t]

\* A u64 as four 16-bit limbs, least significant first; n is below 2^31
Limbs(n) == <<n % 65536, n \div 65536, 0, 0>>

\* a - b modulo 2^64 on limbs: the limbs from index i on, with a borrow
RECURSIVE WrappingSubFrom(_, _, _, _)
WrappingSubFrom(a, b, i, borrow) ==
    IF i > 4 THEN <<>>
    ELSE LET d == a[i] - b[i] - borrow
         IN  <<d % 65536>> \o
             WrappingSubFrom(a, b, i + 1, IF d < 0 THEN 1 ELSE 0)

\* u64::wrapping_sub
WrappingSub(a, b) == WrappingSubFrom(a, b, 1, 0)

\* a >= b on limbs
LimbsAtLeast(a, b) ==
    \/ a = b
    \/ \E i \in 1..4 : a[i] > b[i] /\ \A j \in (i + 1)..4 : a[j] = b[j]

\* Clock steps taken in one run
MaxTicks == 2

\* Network requests check_for_update makes in one run
MaxRequests == 2

\* The clock at the start: SystemTime::now() in seconds since the epoch
StartTime == 100000

\* The steps the clock takes: a second, and a second less than the interval
TickDeltas == {1, CHECK_INTERVAL_SECS - 1}

\* What last-check can hold when the program starts: nothing, something
\* unreadable, text that is no number, a timestamp exactly one interval old,
\* one second younger, with white space around it, and a timestamp later than
\* the clock
InitialLastCheck ==
    { Absent, Unreadable,
      Text(<<>>), Text(<<"1", "x">>),
      Text(to_string(StartTime - CHECK_INTERVAL_SECS)),
      Text(to_string(StartTime - CHECK_INTERVAL_SECS + 1)),
      Text(<<" ">> \o to_string(StartTime - 5) \o <<"\n">>),
      Text(to_string(StartTime + 50000)) }

\* should_check(): "true", "false", or "panic" when `now - last_check`
\* overflows in a build with overflow checks; without them it wraps.
should_check ==
    IF ~has_config THEN "false"
    ELSE IF last_check_file.kind = "absent" THEN "true"
    ELSE IF last_check_file.kind # "text" THEN "true"
    ELSE LET parsed == ParseU64(Trim(last_check_file.text))
         IN  IF parsed = Err THEN "true"
             ELSE IF Unwrap(parsed) > now /\ overflow_checks THEN "panic"
             ELSE IF LimbsAtLeast(WrappingSub(Limbs(now), Limbs(Unwrap(parsed))),
                                  Limbs(CHECK_INTERVAL_SECS))
                  THEN "true"
                  ELSE "false"

\* Mutant: the timestamp is never written.
save_last_check_skipped(write_ok) == last_check_file

\* save_last_check(): the file afterwards; write_ok is the outcome of
\* create_dir_all and fs::write, whose errors are dropped.
save_last_check(write_ok) ==
    IF ~has_config THEN last_check_file
    ELSE IF write_ok THEN Text(to_string(now))
    ELSE last_check_file

\* What the release endpoint can answer: no answer (send fails), a body
\* that is no JSON, JSON without tag_name (json() fails on both), or a
\* release with its tag_name
Tags ==
    { <<"v", "0", ".", "2", ".", "0">>,
      <<"v", "0", ".", "1", ".", "0">>,
      <<"v", "0", ".", "0", ".", "9">> }

Responses ==
    { [kind |-> "transport_error", tag |-> <<>>],
      [kind |-> "bad_json", tag |-> <<>>],
      [kind |-> "no_tag_name", tag |-> <<>>] }
    \cup {[kind |-> "release", tag |-> t] : t \in Tags}

\* The answers used in the runs of several calls: the three failures, a
\* newer release, the installed release
RateResponses ==
    { [kind |-> "transport_error", tag |-> <<>>],
      [kind |-> "bad_json", tag |-> <<>>],
      [kind |-> "no_tag_name", tag |-> <<>>],
      [kind |-> "release", tag |-> <<"v", "0", ".", "2", ".", "0">>],
      [kind |-> "release", tag |-> <<"v", "0", ".", "1", ".", "0">>] }

\* Mutant: every release found is reported, newer or not.
check_for_update_internal_any_release(resp) ==
    IF resp.kind # "release" THEN None ELSE Some(resp.tag)

\* check_for_update_internal() on the endpoint's answer
check_for_update_internal(resp) ==
    IF resp.kind # "release" THEN None
    ELSE LET latest  == TrimStartMatches(resp.tag, "v")
             current == VERSION
         IN  IF latest # current /\ is_newer_version(latest, current)
             THEN Some(resp.tag)
             ELSE None

NoResponse == [kind |-> "none", tag |-> <<>>]

\* check_for_update(): whether it panicked, whether a request was made, the
\* value returned, the file last-check afterwards
check_for_update(resp, write_ok) ==
    LET go == should_check
    IN  IF go = "panic"
        THEN [panic |-> TRUE, requested |-> FALSE, ret |-> None,
              file |-> last_check_file]
        ELSE IF go = "false"
        THEN [panic |-> FALSE, requested |-> FALSE, ret |-> None,
              file |-> last_check_file]
        ELSE [panic |-> FALSE, requested |-> TRUE,
              ret |-> check_for_update_internal(resp),
              file |-> save_last_check(write_ok)]

\* Mutant: the forced check records the time like the rate-limited one.
check_for_update_forced_saving(resp, write_ok) ==
    [panic |-> FALSE, requested |-> TRUE,
     ret |-> check_for_update_internal(resp),
     file |-> save_last_check(write_ok)]

\* check_for_update_forced()
check_for_update_forced(resp, write_ok) ==
    [panic |-> FALSE, requested |-> TRUE,
     ret |-> check_for_update_internal(resp),
     file |-> last_check_file]

\* Mutant: the version is not written.
save_available_update_skipped(version, write_ok) == update_file

\* save_available_update(version): the file update-available afterwards
save_available_update(version, write_ok) ==
    IF ~has_config THEN update_file
    ELSE IF write_ok THEN Text(version)
    ELSE update_file

\* Mutant: a stale value is reported but left on disk.
load_available_update_keeping(remove_ok) ==
    IF ~has_config \/ update_file.kind # "text"
    THEN [ret |-> None, file |-> update_file]
    ELSE LET version == Trim(update_file.text)
         IN  IF is_newer_version(TrimStartMatches(version, "v"), VERSION)
             THEN [ret |-> Some(version), file |-> update_file]
             ELSE [ret |-> None, file |-> update_file]

\* load_available_update(): the value returned and the file afterwards;
\* remove_ok is the outcome of fs::remove_file, whose error is dropped.
load_available_update(remove_ok) ==
    IF ~has_config THEN [ret |-> None, file |-> update_file]
    ELSE IF update_file.kind # "text" THEN [ret |-> None, file |-> update_file]
    ELSE LET version == Trim(update_file.text)
             latest  == TrimStartMatches(version, "v")
         IN  IF is_newer_version(latest, VERSION)
             THEN [ret |-> Some(version), file |-> update_file]
             ELSE [ret |-> None,
                   file |-> IF remove_ok THEN Absent ELSE update_file]

\* clear_available_update(): the file afterwards
clear_available_update(remove_ok) ==
    IF has_config /\ update_file.kind # "absent" /\ remove_ok
    THEN Absent
    ELSE update_file

-----------------------------------------------------------------------------
(* updater.rs: the rate-limited check                                      *)

NoCall == [op |-> "none", resp |-> NoResponse, write_ok |-> TRUE,
           at |-> 0, file |-> Absent, requested |-> FALSE, ret |-> None,
           after_forced |-> FALSE, prev |-> "none"]

UpdIdle ==
    /\ now = StartTime
    /\ overflow_checks = FALSE
    /\ last_check_file = Absent
    /\ update_file = Absent
    /\ upd_pc = "run"
    /\ upd_ticks = 0
    /\ upd_reqs = <<>>
    /\ upd_forced_since = FALSE
    /\ upd_write_failed = FALSE
    /\ upd_last = NoCall

RateInit ==
    /\ has_config \in BOOLEAN
    /\ now = StartTime
    /\ overflow_checks \in BOOLEAN
    /\ last_check_file \in InitialLastCheck
    /\ ~has_config => last_check_file = Absent
    /\ update_file = Absent
    /\ upd_pc = "run"
    /\ upd_ticks = 0
    /\ upd_reqs = <<>>
    /\ upd_forced_since = FALSE
    /\ upd_write_failed = FALSE
    /\ upd_last = NoCall

\* SystemTime::now() moves on.
ClockTick ==
    /\ upd_pc = "run"
    /\ upd_ticks < MaxTicks
    /\ upd_ticks' = upd_ticks + 1
    /\ \E d \in TickDeltas : now' = now + d
    /\ UNCHANGED <<overflow_checks, last_check_file, update_file, upd_pc,
                   upd_reqs, upd_forced_since, upd_write_failed, upd_last,
                   updOthers>>

\* One call of check_for_update().  upd_last records the call: the answer
\* of the endpoint, the outcome of the write, the clock and the file
\* last-check it found, whether it made a request, what it returned, and
\* whether a forced check came between its request and the one before.
CheckForUpdate ==
    /\ upd_pc = "run"
    /\ Len(upd_reqs) < MaxRequests
    /\ \E resp \in RateResponses, write_ok \in BOOLEAN :
         \E r \in {check_for_update(resp, write_ok)} :
             /\ upd_pc' = (IF r.panic THEN "panicked" ELSE "run")
             /\ last_check_file' = r.file
             /\ upd_reqs' =
                    (IF r.requested THEN Append(upd_reqs, now) ELSE upd_reqs)
             /\ upd_forced_since' = (upd_forced_since /\ ~r.requested)
             /\ upd_write_failed' =
                    (upd_write_failed \/ (r.requested /\ ~write_ok))
             /\ upd_last' = [op |-> IF r.panic THEN "check_for_update_panic"
                                    ELSE "check_for_update",
                             resp |-> IF r.requested THEN resp ELSE NoResponse,
                             write_ok |-> write_ok \/ ~r.requested,
                             at |-> now, file |-> last_check_file,
                             requested |-> r.requested, ret |-> r.ret,
                             after_forced |-> r.requested /\ upd_forced_since,
                             prev |-> "check"]
    /\ UNCHANGED <<now, overflow_checks, update_file, upd_ticks, updOthers>>

\* One call of check_for_update_forced()
CheckForUpdateForced ==
    /\ upd_pc = "run"
    /\ \E resp \in RateResponses, write_ok \in BOOLEAN :
         \E r \in {check_for_update_forced(resp, write_ok)} :
             /\ last_check_file' = r.file
             /\ upd_forced_since' = TRUE
             /\ upd_write_failed' =
                    (upd_write_failed \/ (r.file # last_check_file /\ ~write_ok))
             /\ upd_last' = [op |-> "check_for_update_forced", resp |-> resp,
                             write_ok |-> TRUE,
                             at |-> now, file |-> last_check_file,
                             requested |-> r.requested, ret |-> r.ret,
                             after_forced |-> FALSE, prev |-> "check"]
    /\ UNCHANGED <<now, overflow_checks, update_file, upd_pc, upd_ticks,
                   upd_reqs, updOthers>>

RateNext ==
    \/ ClockTick
    \/ CheckForUpdate
    \/ CheckForUpdateForced

-----------------------------------------------------------------------------
(* updater.rs: the persisted pending update                                *)

\* What update-available can hold when the program starts: nothing,
\* something unreadable, a newer tag (also with a line end), the installed
\* version, an older one, an empty file, text that is no version
InitialUpdateFile ==
    { Absent, Unreadable,
      Text(<<"v", "0", ".", "2", ".", "0">>),
      Text(<<"v", "0", ".", "2", ".", "0", "\n">>),
      Text(<<"v", "0", ".", "1", ".", "0">>),
      Text(<<"0", ".", "0", ".", "9">>),
      Text(<<>>),
      Text(<<"l", "a", "t", "e", "s", "t">>) }

PendingInit ==
    /\ has_config \in BOOLEAN
    /\ now = StartTime
    /\ overflow_checks = FALSE
    /\ last_check_file = Absent
    /\ update_file \in InitialUpdateFile
    /\ ~has_config => update_file = Absent
    /\ upd_pc = "run"
    /\ upd_ticks = 0
    /\ upd_reqs = <<>>
    /\ upd_forced_since = FALSE
    /\ upd_write_failed = FALSE
    /\ upd_last = NoCall

\* What upd_last.prev says about the call before a call
CallSummary ==
    IF upd_last.op # "load" THEN "other"
    ELSE IF upd_last.file.kind = "text" /\ upd_last.ret = None
    THEN "load_stale"
    ELSE "load"

\* One call of save_available_update(version).  For the calls on
\* update-available upd_last records the file found, the outcome of the
\* write or removal, the value returned and the kind of call before.
SaveAvailableUpdate ==
    /\ upd_pc = "run"
    /\ \E version \in Tags, write_ok \in BOOLEAN :
         /\ update_file' = save_available_update(version, write_ok)
         /\ upd_last' = [NoCall EXCEPT !.op = "save", !.write_ok = write_ok,
                                       !.file = update_file,
                                       !.prev = CallSummary]
    /\ UNCHANGED <<now, overflow_checks, last_check_file, upd_pc, upd_ticks,
                   upd_reqs, upd_forced_since, upd_write_failed, updOthers>>

\* One call of load_available_update()
LoadAvailableUpdate ==
    /\ upd_pc = "run"
    /\ \E remove_ok \in BOOLEAN :
         \E r \in {load_available_update(remove_ok)} :
             /\ update_file' = r.file
             /\ upd_last' = [NoCall EXCEPT !.op = "load",
                                           !.write_ok = remove_ok,
                                           !.file = update_file,
                                           !.ret = r.ret,
                                           !.prev = CallSummary]
    /\ UNCHANGED <<now, overflow_checks, last_check_file, upd_pc, upd_ticks,
                   upd_reqs, upd_forced_since, upd_write_failed, updOthers>>

\* One call of clear_available_update()
ClearAvailableUpdate ==
    /\ upd_pc = "run"
    /\ \E remove_ok \in BOOLEAN :
         /\ update_file' = clear_available_update(remove_ok)
         /\ upd_last' = [NoCall EXCEPT !.op = "clear", !.write_ok = remove_ok,
                                       !.file = update_file,
                                       !.prev = CallSummary]
    /\ UNCHANGED <<now, overflow_checks, last_check_file, upd_pc, upd_ticks,
                   upd_reqs, upd_forced_since, upd_write_failed, updOthers>>

PendingNext ==
    \/ SaveAvailableUpdate
    \/ LoadAvailableUpdate
    \/ ClearAvailableUpdate

-----------------------------------------------------------------------------
(* geo.rs and main.rs: the location fetch and the coordinator              *)

\* Commands waiting in the channel when the user activates a menu item
MaxPendingCommands == 1

\* Events waiting in the channel when the watcher sends one
MaxPendingEvents == 1

\* mpsc::channel::<TrayCommand>(16)
CmdCapacity == 16

\* GeoInfo values of two places
GeoVN == [query |-> "203.0.113.7", country |-> "Vietnam",
          country_code |-> <<"V", "N">>, city |-> "Hanoi", isp |-> "VNPT"]

GeoUS == [query |-> "198.51.100.9", country |-> "United States",
          country_code |-> <<"U", "S">>, city |-> "Boston", isp |-> "Comcast"]

\* ApiResponse of a GeoInfo, with the given status
ApiResponseOf(status, geo) ==
    [kind |-> "json", status |-> status, message |-> None,
     query |-> Some(geo.query), country |-> Some(geo.country),
     country_code |-> Some(geo.country_code), city |-> Some(geo.city),
     isp |-> Some(geo.isp)]

\* What the request of fetch_location can give: an error of the request or
\* of decoding the body, a "fail" answer with a message, a "fail" answer
\* that carries all fields, two complete answers, an answer without isp
GeoResponses ==
    { [ApiResponseOf("", GeoVN) EXCEPT !.kind = "error"],
      [kind |-> "json", status |-> "fail",
       message |-> Some("reserved range"), query |-> Some("10.0.0.1"),
       country |-> None, country_code |-> None, city |-> None,
       isp |-> None],
      ApiResponseOf("fail", GeoVN),
      ApiResponseOf("success", GeoVN),
      ApiResponseOf("success", GeoUS),
      [ApiResponseOf("success", GeoUS) EXCEPT !.isp = None] }

\* fetch_location() on what the request gave: Result<GeoInfo, GeoError> as
\* [ok, info, err], info an Option
fetch_location(response) ==
    IF response.kind = "error"
    THEN [ok |-> FALSE, info |-> None, err |-> "Request"]
    ELSE IF response.status = "fail"
    THEN [ok |-> FALSE, info |-> None, err |-> "ApiError"]
    ELSE IF \/ response.query = None
            \/ response.country = None
            \/ response.country_code = None
            \/ response.city = None
            \/ response.isp = None
    THEN [ok |-> FALSE, info |-> None, err |-> "InvalidResponse"]
    ELSE [ok |-> TRUE,
          info |-> Some([query |-> Unwrap(response.query),
                         country |-> Unwrap(response.country),
                         country_code |-> Unwrap(response.country_code),
                         city |-> Unwrap(response.city),
                         isp |-> Unwrap(response.isp)]),
          err |-> "none"]

\* Mutant: a failed fetch empties the cell.
store_location_clearing(cell, result) == result.info

\* match fetch_location().await { Ok(info) => *guard = Some(info), Err => log }
\* as the three refresh paths have it: the cell afterwards.  No code panics
\* while it holds the lock, so lock() gives Ok.
store_location(cell, result) ==
    IF result.ok THEN result.info ELSE cell

\* last_fetch and handled tell what the program did last.  last_fetch: the
\* path of the fetch just completed, whether it gave Ok, the GeoInfo it
\* gave, and, for a failed one, the cell as it was; NoFetch once the select!
\* has taken something since.  handled: the command or event the select!
\* took (with its outcome, for a forced check that has returned), "none"
\* once a fetch has completed since.
NoFetch == [path |-> "none", ok |-> FALSE, info |-> None, before |-> None]

FetchRecord(path, result, cell) ==
    [path |-> path, ok |-> result.ok, info |-> result.info,
     before |-> IF result.ok THEN None ELSE cell]

\* The tray's commands
Refresh == "Refresh"

ToggleAutostart == "ToggleAutostart"

CheckUpdate == "CheckUpdate"

RunUpdate == "RunUpdate"

Quit == "Quit"

\* The coordinator before main has run
MainIdle ==
    /\ geo_info = None
    /\ cmd_q = <<>>
    /\ main_pc = "initial_fetch"
    /\ per_pc = "unspawned"
    /\ current_autostart = FALSE
    /\ tray_autostart_enabled = FALSE
    /\ tray_update_available = None
    /\ tray_checking_update = FALSE
    /\ last_fetch = NoFetch
    /\ handled = "none"
    /\ cmd_dropped = FALSE
    /\ update_proc = "none"
    /\ tray_spawned = FALSE
    /\ new_version = None

\* The disk and the channels when the program starts
Init ==
    /\ MainIdle /\ VerIdle /\ FlagIdle /\ WatchIdle /\ TimerIdle /\ CellIdle
    /\ has_config \in BOOLEAN
    /\ as_exe = Some("/usr/local/bin/network-monitor")
    /\ as_file = None
    /\ as_dir = FALSE
    /\ as_last = [op |-> "none", ret |-> Ok, dir |-> FALSE, file |-> None]
    /\ now = StartTime
    /\ overflow_checks = FALSE
    /\ last_check_file = Absent
    /\ update_file \in {Absent, Text(<<"v", "0", ".", "2", ".", "0">>),
                        Text(<<"v", "0", ".", "1", ".", "0">>)}
    /\ ~has_config => update_file = Absent
    /\ upd_pc = "run"
    /\ upd_ticks = 0
    /\ upd_reqs = <<>>
    /\ upd_forced_since = FALSE
    /\ upd_write_failed = FALSE
    /\ upd_last = NoCall

\* main is in its event loop, at the select! or inside a handler
InLoop ==
    main_pc \in {"select", "refresh_fetch", "check_update",
                 "connected_sleep", "connected_fetch", "run_update"}

\* main has returned or panicked: the runtime is gone, and the tasks with it
Exited == main_pc \in {"done", "panicked"}

\* main.rs 70-84: the initial fetch completes and fills the cell; a failed
\* one is logged and leaves None.
InitialFetch ==
    /\ main_pc = "initial_fetch"
    /\ \E response \in GeoResponses :
         \E result \in {fetch_location(response)} :
             /\ geo_info' = result.info
             /\ last_fetch' = FetchRecord("initial", result, geo_info)
    /\ main_pc' = "create_tray"
    /\ handled' = "none"
    /\ UNCHANGED <<cmd_q, per_pc, current_autostart, tray_autostart_enabled,
                   tray_update_available, tray_checking_update,
                   as_dir, as_file, last_check_file, update_file,
                   net_q, net_rx_open, cmd_dropped, update_proc, tray_spawned,
                   new_version, w_pc, upd_write_failed, mainOthers>>

\* Mutant: the tray is made before the initial fetch, which is then left
\* out.
CreateTray_early ==
    /\ main_pc = "initial_fetch"
    /\ \E spawn_ok \in BOOLEAN :
         /\ tray_spawned' = spawn_ok
         /\ main_pc' = (IF spawn_ok THEN "startup_load" ELSE "panicked")
    /\ current_autostart' = is_autostart_enabled
    /\ tray_autostart_enabled' = is_autostart_enabled
    /\ UNCHANGED <<geo_info, cmd_q, per_pc, tray_update_available,
                   tray_checking_update, last_fetch, handled,
                   as_dir, as_file, last_check_file, update_file,
                   net_q, net_rx_open, cmd_dropped, update_proc, new_version,
                   w_pc, upd_write_failed, mainOthers>>

\* main.rs 86-100, 150: the channels are made, is_autostart_enabled() is
\* read, the tray is made with it and its service spawned; tray.spawn()
\* failing panics ("Failed to spawn tray service").
CreateTray ==
    /\ main_pc = "create_tray"
    /\ \E spawn_ok \in BOOLEAN :
         /\ tray_spawned' = spawn_ok
         /\ main_pc' = (IF spawn_ok THEN "startup_load" ELSE "panicked")
    /\ current_autostart' = is_autostart_enabled
    /\ tray_autostart_enabled' = is_autostart_enabled
    /\ UNCHANGED <<geo_info, cmd_q, per_pc, tray_update_available,
                   tray_checking_update, last_fetch, handled,
                   as_dir, as_file, last_check_file, update_file,
                   net_q, net_rx_open, cmd_dropped, update_proc, new_version,
                   w_pc, upd_write_failed, mainOthers>>

\* main.rs 103-107: a persisted newer version goes to the tray; otherwise
\* the rate-limited check follows.
StartupLoad ==
    /\ main_pc = "startup_load"
    /\ \E remove_ok \in BOOLEAN :
         \E r \in {load_available_update(remove_ok)} :
             /\ update_file' = r.file
             /\ IF IsSome(r.ret)
                THEN /\ tray_update_available' = r.ret
                     /\ main_pc' = "spawn"
                ELSE /\ tray_update_available' = tray_update_available
                     /\ main_pc' = "startup_check"
    /\ UNCHANGED <<geo_info, cmd_q, per_pc, current_autostart,
                   tray_autostart_enabled, tray_checking_update, last_fetch, as_dir, as_file, last_check_file,
                   net_q, net_rx_open, handled, cmd_dropped, update_proc, tray_spawned, new_version, w_pc, upd_write_failed, mainOthers>>

\* Mutant: the version found goes to the tray at once and is saved
\* afterwards.
StartupCheck_setting_first ==
    /\ main_pc = "startup_check"
    /\ \E resp \in RateResponses, write_ok \in BOOLEAN :
         \E r \in {check_for_update(resp, write_ok)} :
             /\ last_check_file' = r.file
             /\ new_version' = r.ret
             /\ upd_write_failed' =
                  (upd_write_failed \/ (r.requested /\ has_config /\ ~write_ok))
             /\ tray_update_available' =
                  (IF IsSome(r.ret) THEN r.ret ELSE tray_update_available)
             /\ main_pc' = (IF r.panic THEN "panicked"
                            ELSE IF IsSome(r.ret) THEN "startup_set"
                            ELSE "spawn")
    /\ UNCHANGED <<geo_info, cmd_q, per_pc, current_autostart,
                   tray_autostart_enabled, tray_checking_update, last_fetch,
                   as_dir, as_file, update_file,
                   net_q, net_rx_open, handled, cmd_dropped, update_proc,
                   tray_spawned, w_pc, mainOthers>>

\* main.rs 108-109: check_for_update(); a version found is handed to
\* save_available_update.
StartupCheck ==
    /\ main_pc = "startup_check"
    /\ \E resp \in RateResponses, write_ok \in BOOLEAN, save_ok \in BOOLEAN :
         \E r \in {check_for_update(resp, write_ok)} :
             /\ last_check_file' = r.file
             /\ new_version' = r.ret
             /\ upd_write_failed' =
                  (\/ upd_write_failed
                   \/ (r.requested /\ has_config /\ ~write_ok)
                   \/ (IsSome(r.ret) /\ has_config /\ ~save_ok))
             /\ update_file' =
                  (IF IsSome(r.ret)
                   THEN save_available_update(Unwrap(r.ret), save_ok)
                   ELSE update_file)
             /\ main_pc' = (IF r.panic THEN "panicked"
                            ELSE IF IsSome(r.ret) THEN "startup_set"
                            ELSE "spawn")
    /\ UNCHANGED <<geo_info, cmd_q, per_pc, current_autostart,
                   tray_autostart_enabled, tray_update_available,
                   tray_checking_update, last_fetch, as_dir, as_file,
                   net_q, net_rx_open, handled, cmd_dropped, update_proc,
                   tray_spawned, w_pc, mainOthers>>

\* main.rs 110-112: the version found goes to the tray.
StartupSet ==
    /\ main_pc = "startup_set"
    /\ tray_update_available' = new_version
    /\ new_version' = None
    /\ main_pc' = "spawn"
    /\ UNCHANGED <<geo_info, cmd_q, per_pc, current_autostart,
                   tray_autostart_enabled, tray_checking_update, last_fetch,
                   as_dir, as_file, last_check_file, update_file,
                   net_q, net_rx_open, handled, cmd_dropped, update_proc,
                   tray_spawned, w_pc, upd_write_failed, mainOthers>>

\* main.rs 115-150: the watcher and the periodic refresh task are spawned,
\* main enters its loop.  The interval's first tick completes at once
\* (line 128), so the task next waits for a whole REFRESH_INTERVAL.
SpawnTasks ==
    /\ main_pc = "spawn"
    /\ main_pc' = "select"
    /\ per_pc' = "tick"
    /\ w_pc' = "start"
    /\ UNCHANGED <<geo_info, cmd_q, current_autostart,
                   tray_autostart_enabled, tray_update_available,
                   tray_checking_update, last_fetch,
                   as_dir, as_file, last_check_file, update_file,
                   net_q, net_rx_open, handled, cmd_dropped, update_proc,
                   tray_spawned, new_version, upd_write_failed, mainOthers>>

\* Mutant: the watcher's error takes main down with it.
WatcherConnects_fatal ==
    /\ ~Exited
    /\ w_pc = "start"
    /\ \E connected \in BOOLEAN :
         /\ w_pc' = (IF connected THEN "select" ELSE "failed")
         /\ main_pc' = (IF connected THEN main_pc ELSE "panicked")
    /\ UNCHANGED <<geo_info, cmd_q, per_pc, current_autostart,
                   tray_autostart_enabled, tray_update_available,
                   tray_checking_update, last_fetch,
                   as_dir, as_file, last_check_file, update_file,
                   net_q, net_rx_open, handled, cmd_dropped, update_proc,
                   tray_spawned, new_version, upd_write_failed, mainOthers>>

\* network.rs 83-96, main.rs 117-120: the watcher connects to the system
\* bus and makes its proxy, or returns Err, which its task logs and ends
\* with.
WatcherConnects ==
    /\ ~Exited
    /\ w_pc = "start"
    /\ \E connected \in BOOLEAN :
         w_pc' = (IF connected THEN "select" ELSE "failed")
    /\ UNCHANGED <<geo_info, cmd_q, main_pc, per_pc, current_autostart,
                   tray_autostart_enabled, tray_update_available,
                   tray_checking_update, last_fetch,
                   as_dir, as_file, last_check_file, update_file,
                   net_q, net_rx_open, handled, cmd_dropped, update_proc,
                   tray_spawned, new_version, upd_write_failed, mainOthers>>

\* main.rs 131-134: REFRESH_INTERVAL has passed, the fetch is started.
PeriodicTick ==
    /\ ~Exited
    /\ per_pc = "tick"
    /\ per_pc' = "fetch"
    /\ UNCHANGED <<geo_info, cmd_q, main_pc, current_autostart,
                   tray_autostart_enabled, tray_update_available,
                   tray_checking_update, last_fetch,
                   as_dir, as_file, last_check_file, update_file,
                   net_q, net_rx_open, handled, cmd_dropped, update_proc, tray_spawned, new_version, w_pc, upd_write_failed, mainOthers>>

\* main.rs 134-145: the periodic fetch completes.
PeriodicFetched ==
    /\ ~Exited
    /\ per_pc = "fetch"
    /\ per_pc' = "tick"
    /\ \E response \in GeoResponses :
         \E result \in {fetch_location(response)} :
             /\ geo_info' = store_location(geo_info, result)
             /\ last_fetch' = FetchRecord("periodic", result, geo_info)
    /\ handled' = "none"
    /\ UNCHANGED <<cmd_q, main_pc, current_autostart,
                   tray_autostart_enabled, tray_update_available,
                   tray_checking_update, as_dir, as_file, last_check_file, update_file,
                   net_q, net_rx_open, cmd_dropped, update_proc, tray_spawned, new_version, w_pc, upd_write_failed, mainOthers>>

\* The activate of an item that has none (StandardItem's default)
NoCommand == "no command"

\* Mutant: the line of a running check is put in front of the other two
\* instead of replacing them.
update_section_stacking(checking_update, update_available) ==
    (IF checking_update
     THEN << [label |-> <<"Checking for updates...">>,
              enabled |-> FALSE, sends |-> NoCommand] >>
     ELSE << >>)
    \o (IF IsSome(update_available)
        THEN << [label |-> <<"Update to ", Unwrap(update_available),
                             " (click to install)">>,
                 enabled |-> TRUE, sends |-> RunUpdate] >>
        ELSE << [label |-> <<"Check for Updates">>,
                 enabled |-> TRUE, sends |-> CheckUpdate] >>)

\* tray.rs 205-234: the items menu() pushes between its second and third
\* separator; an item is its label, whether it is enabled, and the command
\* its activate sends.
update_section(checking_update, update_available) ==
    IF checking_update
    THEN << [label |-> <<"Checking for updates...">>,
             enabled |-> FALSE, sends |-> NoCommand] >>
    ELSE IF IsSome(update_available)
    THEN << [label |-> <<"Update to ", Unwrap(update_available),
                         " (click to install)">>,
             enabled |-> TRUE, sends |-> RunUpdate] >>
    ELSE << [label |-> <<"Check for Updates">>,
             enabled |-> TRUE, sends |-> CheckUpdate] >>

\* tray.rs 144-248: the items of menu() that can be activated, with the
\* update section; the location labels and the separators are left out.
menu(autostart_enabled, checking_update, update_available) ==
    << [label |-> <<"Refresh">>, enabled |-> TRUE, sends |-> Refresh],
       [label |-> <<"Launch on Login",
                    IF autostart_enabled THEN "checked" ELSE "unchecked">>,
        enabled |-> TRUE, sends |-> ToggleAutostart] >>
    \o update_section(checking_update, update_available)
    \o << [label |-> <<"Quit">>, enabled |-> TRUE, sends |-> Quit] >>

\* tray.rs 183-245: the commands the menu offers
MenuCommands ==
    LET items == menu(tray_autostart_enabled, tray_checking_update,
                      tray_update_available)
    IN  {items[i].sends : i \in {k \in 1..Len(items) :
                                   /\ items[k].enabled
                                   /\ items[k].sends # NoCommand}}

\* Mutant: the send finds room in a full channel too.
try_send_unbounded(q, cmd) == [full |-> FALSE, q |-> Append(q, cmd)]

\* tx.try_send(cmd) on the command channel: behind the commands waiting
\* when there is room, Err(Full) and no change otherwise; it never waits.
try_send(q, cmd) ==
    IF Len(q) < CmdCapacity
    THEN [full |-> FALSE, q |-> Append(q, cmd)]
    ELSE [full |-> TRUE, q |-> q]

\* tray.rs 186-243: a menu item is activated; the result of try_send is
\* dropped (let _ =).
MenuActivate ==
    /\ tray_spawned
    /\ ~Exited
    /\ Len(cmd_q) < MaxPendingCommands
    /\ \E cmd \in MenuCommands :
         \E r \in {try_send(cmd_q, cmd)} :
             /\ cmd_q' = r.q
             /\ cmd_dropped' = r.full
    /\ UNCHANGED <<geo_info, main_pc, per_pc, current_autostart,
                   tray_autostart_enabled, tray_update_available,
                   tray_checking_update, last_fetch, handled,
                   as_dir, as_file, last_check_file, update_file,
                   net_q, net_rx_open, update_proc, tray_spawned, new_version, w_pc, upd_write_failed, mainOthers>>

\* The commands of a burst of activations: the two items the menu always
\* offers beside Quit
BurstCommands == MenuCommands \cap {Refresh, ToggleAutostart}

\* tray.rs 186-198: a menu item is activated while main is inside a
\* handler, however many commands wait.
MenuActivateBusy ==
    /\ main_pc = "check_update"
    /\ \E cmd \in BurstCommands :
         \E r \in {try_send(cmd_q, cmd)} :
             /\ cmd_q' = r.q
             /\ cmd_dropped' = r.full
    /\ UNCHANGED <<geo_info, main_pc, per_pc, current_autostart,
                   tray_autostart_enabled, tray_update_available,
                   tray_checking_update, last_fetch, handled,
                   as_dir, as_file, last_check_file, update_file,
                   net_q, net_rx_open, update_proc, tray_spawned, new_version, w_pc, upd_write_failed, mainOthers>>

\* Commands that wait in the channel when main is followed through several
\* of them
MaxQueued == 2

\* tray.rs 186-243: a menu item is activated while main runs, with up to
\* MaxQueued commands waiting.
MenuActivateBehind ==
    /\ tray_spawned
    /\ ~Exited
    /\ Len(cmd_q) < MaxQueued
    /\ \E cmd \in MenuCommands :
         \E r \in {try_send(cmd_q, cmd)} :
             /\ cmd_q' = r.q
             /\ cmd_dropped' = r.full
    /\ UNCHANGED <<geo_info, main_pc, per_pc, current_autostart,
                   tray_autostart_enabled, tray_update_available,
                   tray_checking_update, last_fetch, handled,
                   as_dir, as_file, last_check_file, update_file,
                   net_q, net_rx_open, update_proc, tray_spawned, new_version, w_pc, upd_write_failed, mainOthers>>

\* network.rs 113-116, 123-127: the watcher task sends an event.  In this
\* specification the watcher is taken by what it can send; SpecWatcher
\* follows it step by step.
WatcherSends ==
    /\ InLoop
    /\ w_pc = "select"
    /\ Len(net_q) < MaxPendingEvents
    /\ Len(net_q) < NetCapacity
    /\ \E event \in {"Connected", "Disconnected"} :
         net_q' = Append(net_q, event)
    /\ UNCHANGED <<geo_info, cmd_q, main_pc, per_pc, current_autostart,
                   tray_autostart_enabled, tray_update_available,
                   tray_checking_update, last_fetch,
                   as_dir, as_file, last_check_file, update_file,
                   net_rx_open, handled, cmd_dropped, update_proc, tray_spawned, new_version, w_pc, upd_write_failed, mainOthers>>

\* main.rs 155-159: select! takes Refresh; the fetch is started.
HandleRefresh ==
    /\ main_pc = "select"
    /\ cmd_q # <<>> /\ Head(cmd_q) = Refresh
    /\ cmd_q' = Tail(cmd_q)
    /\ main_pc' = "refresh_fetch"
    /\ last_fetch' = NoFetch
    /\ handled' = Refresh
    /\ UNCHANGED <<geo_info, per_pc, current_autostart,
                   tray_autostart_enabled, tray_update_available,
                   tray_checking_update, as_dir, as_file, last_check_file, update_file,
                   net_q, net_rx_open, cmd_dropped, update_proc, tray_spawned, new_version, w_pc, upd_write_failed, mainOthers>>

\* Mutant: a failed fetch of Refresh ends the loop.
RefreshFetched_exiting ==
    /\ main_pc = "refresh_fetch"
    /\ \E response \in GeoResponses :
         \E result \in {fetch_location(response)} :
             /\ geo_info' = store_location(geo_info, result)
             /\ last_fetch' = FetchRecord("refresh", result, geo_info)
             /\ main_pc' = (IF result.ok THEN "select" ELSE "done")
    /\ handled' = "none"
    /\ UNCHANGED <<cmd_q, per_pc, current_autostart,
                   tray_autostart_enabled, tray_update_available,
                   tray_checking_update, as_dir, as_file, last_check_file,
                   update_file, net_q, net_rx_open, cmd_dropped, update_proc, tray_spawned, new_version, w_pc, upd_write_failed, mainOthers>>

\* main.rs 159-170: the fetch of Refresh completes.
RefreshFetched ==
    /\ main_pc = "refresh_fetch"
    /\ main_pc' = "select"
    /\ \E response \in GeoResponses :
         \E result \in {fetch_location(response)} :
             /\ geo_info' = store_location(geo_info, result)
             /\ last_fetch' = FetchRecord("refresh", result, geo_info)
    /\ handled' = "none"
    /\ UNCHANGED <<cmd_q, per_pc, current_autostart,
                   tray_autostart_enabled, tray_update_available,
                   tray_checking_update, as_dir, as_file, last_check_file, update_file,
                   net_q, net_rx_open, cmd_dropped, update_proc, tray_spawned, new_version, w_pc, upd_write_failed, mainOthers>>

\* Mutant: current_autostart flips whatever the call gave.
HandleToggleAutostart_flipping ==
    /\ main_pc = "select"
    /\ cmd_q # <<>> /\ Head(cmd_q) = ToggleAutostart
    /\ cmd_q' = Tail(cmd_q)
    /\ \E dir_ok \in BOOLEAN, io_ok \in BOOLEAN :
         \E r \in {IF current_autostart THEN remove_autostart(io_ok)
                   ELSE setup_autostart(dir_ok, io_ok)} :
             /\ as_dir' = r.dir
             /\ as_file' = r.file
             /\ current_autostart' = ~current_autostart
    /\ tray_autostart_enabled' = current_autostart'
    /\ last_fetch' = NoFetch
    /\ handled' = ToggleAutostart
    /\ UNCHANGED <<geo_info, main_pc, per_pc, tray_update_available,
                   tray_checking_update, last_check_file, update_file,
                   net_q, net_rx_open, cmd_dropped, update_proc, tray_spawned, new_version, w_pc, upd_write_failed, mainOthers>>

\* main.rs 172-193: ToggleAutostart; current_autostart flips when the call
\* gave Ok, and the tray follows current_autostart.
HandleToggleAutostart ==
    /\ main_pc = "select"
    /\ cmd_q # <<>> /\ Head(cmd_q) = ToggleAutostart
    /\ cmd_q' = Tail(cmd_q)
    /\ \E dir_ok \in BOOLEAN, io_ok \in BOOLEAN :
         \E r \in {IF current_autostart THEN remove_autostart(io_ok)
                   ELSE setup_autostart(dir_ok, io_ok)} :
             /\ as_dir' = r.dir
             /\ as_file' = r.file
             /\ current_autostart' = (IF r.ret = Ok THEN ~current_autostart
                                      ELSE current_autostart)
    /\ tray_autostart_enabled' = current_autostart'
    /\ last_fetch' = NoFetch
    /\ handled' = ToggleAutostart
    /\ UNCHANGED <<geo_info, main_pc, per_pc, tray_update_available,
                   tray_checking_update, last_check_file, update_file,
                   net_q, net_rx_open, cmd_dropped, update_proc, tray_spawned, new_version, w_pc, upd_write_failed, mainOthers>>

\* main.rs 194-207: CheckUpdate; the tray shows the check, the forced check
\* is started.
HandleCheckUpdate ==
    /\ main_pc = "select"
    /\ cmd_q # <<>> /\ Head(cmd_q) = CheckUpdate
    /\ cmd_q' = Tail(cmd_q)
    /\ tray_checking_update' = TRUE
    /\ main_pc' = "check_update"
    /\ last_fetch' = NoFetch
    /\ handled' = CheckUpdate
    /\ UNCHANGED <<geo_info, per_pc, current_autostart,
                   tray_autostart_enabled, tray_update_available,
                   as_dir, as_file, last_check_file, update_file,
                   net_q, net_rx_open, cmd_dropped, update_proc, tray_spawned, new_version, w_pc, upd_write_failed, mainOthers>>

\* handled once the forced check of CheckUpdate has returned: with a version
\* (main.rs 210-222) or with none (main.rs 223-233)
CheckUpdateFound == "CheckUpdate: update found"

CheckUpdateNone == "CheckUpdate: no update"

\* Mutant: checking_update stays set when the tray has a version to offer.
CheckUpdateDone_spinning ==
    /\ main_pc = "check_update"
    /\ main_pc' = "select"
    /\ \E resp \in RateResponses, save_ok \in BOOLEAN :
         \E r \in {check_for_update_forced(resp, TRUE)} :
             /\ last_check_file' = r.file
             /\ upd_write_failed' =
                  (upd_write_failed \/ (IsSome(r.ret) /\ has_config /\ ~save_ok))
             /\ IF IsSome(r.ret)
                THEN /\ update_file' = save_available_update(Unwrap(r.ret), save_ok)
                     /\ tray_update_available' = r.ret
                     /\ handled' = CheckUpdateFound
                ELSE /\ update_file' = update_file
                     /\ tray_update_available' = tray_update_available
                     /\ handled' = CheckUpdateNone
    /\ tray_checking_update' = IsSome(tray_update_available')
    /\ UNCHANGED <<geo_info, cmd_q, per_pc, current_autostart,
                   tray_autostart_enabled, last_fetch,
                   as_dir, as_file, net_q, net_rx_open, cmd_dropped, update_proc, tray_spawned, new_version, w_pc, mainOthers>>

\* main.rs 207-234: the forced check completes; a version found is saved and
\* goes to the tray.
CheckUpdateDone ==
    /\ main_pc = "check_update"
    /\ main_pc' = "select"
    /\ tray_checking_update' = FALSE
    /\ \E resp \in RateResponses, save_ok \in BOOLEAN :
         \E r \in {check_for_update_forced(resp, TRUE)} :
             /\ last_check_file' = r.file
             /\ upd_write_failed' =
                  (upd_write_failed \/ (IsSome(r.ret) /\ has_config /\ ~save_ok))
             /\ IF IsSome(r.ret)
                THEN /\ update_file' = save_available_update(Unwrap(r.ret), save_ok)
                     /\ tray_update_available' = r.ret
                     /\ handled' = CheckUpdateFound
                ELSE /\ update_file' = update_file
                     /\ tray_update_available' = tray_update_available
                     /\ handled' = CheckUpdateNone
    /\ UNCHANGED <<geo_info, cmd_q, per_pc, current_autostart,
                   tray_autostart_enabled, last_fetch,
                   as_dir, as_file, net_q, net_rx_open, cmd_dropped, update_proc, tray_spawned, new_version, w_pc, mainOthers>>

\* main.rs 236-238: RunUpdate; the marker is cleared.
HandleRunUpdate ==
    /\ main_pc = "select"
    /\ cmd_q # <<>> /\ Head(cmd_q) = RunUpdate
    /\ cmd_q' = Tail(cmd_q)
    /\ \E remove_ok \in BOOLEAN :
         update_file' = clear_available_update(remove_ok)
    /\ main_pc' = "run_update"
    /\ last_fetch' = NoFetch
    /\ handled' = RunUpdate
    /\ UNCHANGED <<geo_info, per_pc, current_autostart,
                   tray_autostart_enabled, tray_update_available,
                   tray_checking_update, as_dir, as_file, last_check_file,
                   net_q, net_rx_open, cmd_dropped, update_proc, tray_spawned, new_version, w_pc, upd_write_failed, mainOthers>>

\* Mutant: a failed spawn sends main back to its select!.
RunUpdateSpawn_retrying ==
    /\ main_pc = "run_update"
    /\ \E spawn_ok \in BOOLEAN :
         IF spawn_ok
         THEN /\ update_proc' = "spawned"
              /\ main_pc' = "done"
              /\ cmd_q' = <<>>
              /\ net_q' = <<>>
              /\ net_rx_open' = FALSE
         ELSE /\ update_proc' = "failed"
              /\ main_pc' = "select"
              /\ UNCHANGED <<cmd_q, net_q, net_rx_open>>
    /\ UNCHANGED <<geo_info, per_pc, current_autostart,
                   tray_autostart_enabled, tray_update_available,
                   tray_checking_update, last_fetch, handled,
                   as_dir, as_file, last_check_file, update_file,
                   cmd_dropped, tray_spawned, new_version, w_pc, upd_write_failed, mainOthers>>

\* main.rs 239-244: Command::new("bash")...spawn().ok() starts the installer
\* or fails, and the failure is dropped; break leaves the loop.  The
\* receivers go with main.
RunUpdateSpawn ==
    /\ main_pc = "run_update"
    /\ \E spawn_ok \in BOOLEAN :
         update_proc' = (IF spawn_ok THEN "spawned" ELSE "failed")
    /\ main_pc' = "done"
    /\ cmd_q' = <<>>
    /\ net_q' = <<>>
    /\ net_rx_open' = FALSE
    /\ UNCHANGED <<geo_info, per_pc, current_autostart,
                   tray_autostart_enabled, tray_update_available,
                   tray_checking_update, last_fetch, handled,
                   as_dir, as_file, last_check_file, update_file,
                   cmd_dropped, tray_spawned, new_version, w_pc, upd_write_failed, mainOthers>>


\* Mutant: Quit is taken from the channel and the loop goes on.
HandleQuit_ignored ==
    /\ main_pc = "select"
    /\ cmd_q # <<>> /\ Head(cmd_q) = Quit
    /\ cmd_q' = Tail(cmd_q)
    /\ last_fetch' = NoFetch
    /\ handled' = Quit
    /\ UNCHANGED <<geo_info, main_pc, per_pc, current_autostart,
                   tray_autostart_enabled, tray_update_available,
                   tray_checking_update, as_dir, as_file, last_check_file, update_file,
                   net_q, net_rx_open,
                   cmd_dropped, update_proc, tray_spawned, new_version, w_pc, upd_write_failed, mainOthers>>

\* main.rs 246-249: Quit; the loop is left.
HandleQuit ==
    /\ main_pc = "select"
    /\ cmd_q # <<>> /\ Head(cmd_q) = Quit
    /\ main_pc' = "done"
    /\ cmd_q' = <<>>
    /\ net_q' = <<>>
    /\ net_rx_open' = FALSE
    /\ last_fetch' = NoFetch
    /\ handled' = Quit
    /\ UNCHANGED <<geo_info, per_pc, current_autostart,
                   tray_autostart_enabled, tray_update_available,
                   tray_checking_update, as_dir, as_file, last_check_file, update_file,
                   cmd_dropped, update_proc, tray_spawned, new_version, w_pc, upd_write_failed, mainOthers>>

\* main.rs 254-259: select! takes Connected; the handler sleeps 2 seconds.
HandleConnected ==
    /\ main_pc = "select"
    /\ net_q # <<>> /\ Head(net_q) = "Connected"
    /\ net_q' = Tail(net_q)
    /\ main_pc' = "connected_sleep"
    /\ last_fetch' = NoFetch
    /\ handled' = "Connected"
    /\ UNCHANGED <<geo_info, cmd_q, per_pc, current_autostart,
                   tray_autostart_enabled, tray_update_available,
                   tray_checking_update, as_dir, as_file, last_check_file, update_file,
                   net_rx_open, cmd_dropped, update_proc, tray_spawned, new_version, w_pc, upd_write_failed, mainOthers>>

\* main.rs 259-261: the sleep is over, the fetch is started.
ConnectedSlept ==
    /\ main_pc = "connected_sleep"
    /\ main_pc' = "connected_fetch"
    /\ UNCHANGED <<geo_info, cmd_q, per_pc, current_autostart,
                   tray_autostart_enabled, tray_update_available,
                   tray_checking_update, last_fetch,
                   as_dir, as_file, last_check_file, update_file,
                   net_q, net_rx_open, handled, cmd_dropped, update_proc, tray_spawned, new_version, w_pc, upd_write_failed, mainOthers>>

\* Mutant: a failed fetch after Connected empties the cell.
ConnectedFetched_unplugged ==
    /\ main_pc = "connected_fetch"
    /\ main_pc' = "select"
    /\ \E response \in GeoResponses :
         \E result \in {fetch_location(response)} :
             /\ geo_info' = (IF result.ok THEN result.info ELSE None)
             /\ last_fetch' = FetchRecord("connected", result, geo_info)
    /\ handled' = "none"
    /\ UNCHANGED <<cmd_q, per_pc, current_autostart,
                   tray_autostart_enabled, tray_update_available,
                   tray_checking_update, as_dir, as_file, last_check_file, update_file,
                   net_q, net_rx_open, cmd_dropped, update_proc, tray_spawned, new_version, w_pc, upd_write_failed, mainOthers>>

\* main.rs 261-272: the fetch after Connected completes.
ConnectedFetched ==
    /\ main_pc = "connected_fetch"
    /\ main_pc' = "select"
    /\ \E response \in GeoResponses :
         \E result \in {fetch_location(response)} :
             /\ geo_info' = store_location(geo_info, result)
             /\ last_fetch' = FetchRecord("connected", result, geo_info)
    /\ handled' = "none"
    /\ UNCHANGED <<cmd_q, per_pc, current_autostart,
                   tray_autostart_enabled, tray_update_available,
                   tray_checking_update, as_dir, as_file, last_check_file, update_file,
                   net_q, net_rx_open, cmd_dropped, update_proc, tray_spawned, new_version, w_pc, upd_write_failed, mainOthers>>

\* Mutant: Disconnected empties the location cell.
HandleDisconnected_clearing ==
    /\ main_pc = "select"
    /\ net_q # <<>> /\ Head(net_q) = "Disconnected"
    /\ net_q' = Tail(net_q)
    /\ geo_info' = None
    /\ last_fetch' = NoFetch
    /\ handled' = "Disconnected"
    /\ UNCHANGED <<cmd_q, main_pc, per_pc, current_autostart,
                   tray_autostart_enabled, tray_update_available,
                   tray_checking_update, as_dir, as_file, last_check_file, update_file,
                   net_rx_open, cmd_dropped, update_proc, tray_spawned, new_version, w_pc, upd_write_failed, mainOthers>>

\* main.rs 274-277: select! takes Disconnected; nothing else happens.
HandleDisconnected ==
    /\ main_pc = "select"
    /\ net_q # <<>> /\ Head(net_q) = "Disconnected"
    /\ net_q' = Tail(net_q)
    /\ last_fetch' = NoFetch
    /\ handled' = "Disconnected"
    /\ UNCHANGED <<geo_info, cmd_q, main_pc, per_pc, current_autostart,
                   tray_autostart_enabled, tray_update_available,
                   tray_checking_update, as_dir, as_file, last_check_file, update_file,
                   net_rx_open, cmd_dropped, update_proc, tray_spawned, new_version, w_pc, upd_write_failed, mainOthers>>

Next ==
    \/ InitialFetch
    \/ CreateTray
    \/ StartupLoad
    \/ StartupCheck
    \/ StartupSet
    \/ SpawnTasks
    \/ WatcherConnects
    \/ PeriodicTick
    \/ PeriodicFetched
    \/ MenuActivate
    \/ WatcherSends
    \/ HandleRefresh
    \/ RefreshFetched
    \/ HandleToggleAutostart
    \/ HandleCheckUpdate
    \/ CheckUpdateDone
    \/ HandleRunUpdate
    \/ RunUpdateSpawn
    \/ HandleQuit
    \/ HandleConnected
    \/ ConnectedSlept
    \/ ConnectedFetched
    \/ HandleDisconnected

-----------------------------------------------------------------------------
(* main.rs: the periodic refresh task against the clock                    *)

\* Fetches of the periodic task that are followed
MaxFetches == 3

\* The latest time, in seconds after main started, the task is spawned at
MaxSpawnDelay == 3

\* REFRESH_INTERVAL, in seconds
REFRESH_INTERVAL_SECS == 60

\* The timeout of the request of fetch_location, in seconds
FETCH_TIMEOUT_SECS == 10

\* The time up to which the clock can go on before the task acts: the task
\* is spawned within MaxSpawnDelay, a tick completes when its deadline is
\* reached, a fetch returns within its timeout.
TimerLimit ==
    CASE p_pc = "unspawned" -> MaxSpawnDelay
      [] p_pc \in {"skip", "tick"} -> p_deadline
      [] p_pc = "fetch" -> p_fetch_at + FETCH_TIMEOUT_SECS

\* A second passes
Second ==
    /\ p_now < TimerLimit
    /\ p_now' = p_now + 1
    /\ UNCHANGED <<p_pc, p_deadline, p_started, p_fetches, p_fetch_at,
                   p_outcomes, timerOthers>>

\* Mutant: the task goes to its loop without the tick that skips the
\* interval's immediate first tick.
PeriodicSpawn_unskipped ==
    /\ p_pc = "unspawned"
    /\ p_pc' = "tick"
    /\ p_started' = p_now
    /\ p_deadline' = p_now
    /\ UNCHANGED <<p_now, p_fetches, p_fetch_at, p_outcomes, timerOthers>>

\* main.rs 125-126: the task is spawned and makes its interval, whose
\* first tick is due at once.
PeriodicSpawn ==
    /\ p_pc = "unspawned"
    /\ p_pc' = "skip"
    /\ p_started' = p_now
    /\ p_deadline' = p_now
    /\ UNCHANGED <<p_now, p_fetches, p_fetch_at, p_outcomes, timerOthers>>

\* Interval::tick() completing: the deadline is reached, the next one is a
\* period after it.
interval_tick(deadline) == deadline + REFRESH_INTERVAL_SECS

\* main.rs 127: the first tick is awaited and dropped.
PeriodicSkip ==
    /\ p_pc = "skip"
    /\ p_now >= p_deadline
    /\ p_deadline' = interval_tick(p_deadline)
    /\ p_pc' = "tick"
    /\ UNCHANGED <<p_now, p_started, p_fetches, p_fetch_at, p_outcomes,
                   timerOthers>>

\* main.rs 130-133: a tick of the loop completes, the fetch is started.
PeriodicFire ==
    /\ p_pc = "tick"
    /\ p_now >= p_deadline
    /\ Len(p_fetches) < MaxFetches
    /\ p_deadline' = interval_tick(p_deadline)
    /\ p_fetches' = Append(p_fetches, p_now)
    /\ p_fetch_at' = p_now
    /\ p_pc' = "fetch"
    /\ UNCHANGED <<p_now, p_started, p_outcomes, timerOthers>>

\* main.rs 133-145: the fetch returns Ok or Err; the loop goes on to its
\* next tick in both cases.
PeriodicReturn ==
    /\ p_pc = "fetch"
    /\ \E response \in GeoResponses :
         p_outcomes' = Append(p_outcomes,
                              IF fetch_location(response).ok THEN "ok"
                              ELSE "failed")
    /\ p_pc' = "tick"
    /\ UNCHANGED <<p_now, p_deadline, p_started, p_fetches, p_fetch_at,
                   timerOthers>>

TimerNext ==
    \/ Second
    \/ PeriodicSpawn
    \/ PeriodicSkip
    \/ PeriodicFire
    \/ PeriodicReturn

-----------------------------------------------------------------------------
(* main.rs, tray.rs: the location cell under its mutex                     *)

\* A GeoInfo whose fields are not written yet
GeoBlank == [query |-> "", country |-> "", country_code |-> <<>>,
             city |-> "", isp |-> ""]

\* Copying a GeoInfo takes more than one step of the machine: first query,
\* country and country_code of src over dst, then city and isp.
CopyFirst(dst, src) ==
    [dst EXCEPT !.query = src.query, !.country = src.country,
                !.country_code = src.country_code]

CopyRest(dst, src) == [dst EXCEPT !.city = src.city, !.isp = src.isp]

\* Mutant: lock() returns whether or not another task holds the guard.
mutex_lock_unguarded(holder) == TRUE

\* Mutex::lock() returns once no task holds the guard
mutex_lock(holder) == holder = "none"

\* main.rs 133-134, 160-162, 261-263: a fetch of a writer has given Ok(info)
CellFetched(t) ==
    /\ t \in Writers
    /\ cell_pc[t] = "idle"
    /\ \E response \in GeoResponses :
         \E result \in {fetch_location(response)} :
             /\ result.ok
             /\ cell_val' = [cell_val EXCEPT ![t] = result.info]
    /\ cell_pc' = [cell_pc EXCEPT ![t] = "lock"]
    /\ UNCHANGED <<geo_info, lock_holder, cell_last, cellOthers>>

\* tray.rs 58-74, 124-125, 144-145: icon_name, title, tool_tip or menu is called
CellWanted ==
    /\ cell_pc["tray"] = "idle"
    /\ cell_pc' = [cell_pc EXCEPT !["tray"] = "lock"]
    /\ UNCHANGED <<geo_info, lock_holder, cell_val, cell_last, cellOthers>>

\* geo_info.lock() returns the guard
CellLock(t) ==
    /\ cell_pc[t] = "lock"
    /\ mutex_lock(lock_holder)
    /\ lock_holder' = t
    /\ cell_pc' = [cell_pc EXCEPT ![t] = "first"]
    /\ UNCHANGED <<geo_info, cell_val, cell_last, cellOthers>>

\* main.rs 138, 163, 265: *guard = Some(info), its first part
CellStoreFirst(t) ==
    /\ t \in Writers
    /\ cell_pc[t] = "first"
    /\ geo_info' = Some(CopyFirst(IF IsSome(geo_info) THEN Unwrap(geo_info)
                                  ELSE GeoBlank,
                                  Unwrap(cell_val[t])))
    /\ cell_pc' = [cell_pc EXCEPT ![t] = "rest"]
    /\ UNCHANGED <<lock_holder, cell_val, cell_last, cellOthers>>

\* main.rs 138, 163, 265: *guard = Some(info), its second part
CellStoreRest(t) ==
    /\ t \in Writers
    /\ cell_pc[t] = "rest"
    /\ geo_info' = Some(CopyRest(Unwrap(geo_info), Unwrap(cell_val[t])))
    /\ cell_last' = cell_val[t]
    /\ cell_pc' = [cell_pc EXCEPT ![t] = "unlock"]
    /\ UNCHANGED <<lock_holder, cell_val, cellOthers>>

\* tray.rs 125, 145: g.clone(), its first part
CellCloneFirst ==
    /\ cell_pc["tray"] = "first"
    /\ cell_val' = [cell_val EXCEPT
                      !["tray"] = IF IsSome(geo_info)
                                  THEN Some(CopyFirst(GeoBlank, Unwrap(geo_info)))
                                  ELSE None]
    /\ cell_pc' = [cell_pc EXCEPT !["tray"] = "rest"]
    /\ UNCHANGED <<geo_info, lock_holder, cell_last, cellOthers>>

\* tray.rs 125, 145: g.clone(), its second part
CellCloneRest ==
    /\ cell_pc["tray"] = "rest"
    /\ cell_val' = [cell_val EXCEPT
                      !["tray"] = IF IsSome(cell_val["tray"]) /\ IsSome(geo_info)
                                  THEN Some(CopyRest(Unwrap(cell_val["tray"]),
                                                     Unwrap(geo_info)))
                                  ELSE cell_val["tray"]]
    /\ cell_pc' = [cell_pc EXCEPT !["tray"] = "unlock"]
    /\ UNCHANGED <<geo_info, lock_holder, cell_last, cellOthers>>

\* The guard is dropped
CellUnlock(t) ==
    /\ cell_pc[t] = "unlock"
    /\ lock_holder' = "none"
    /\ cell_pc' = [cell_pc EXCEPT ![t] = "idle"]
    /\ UNCHANGED <<geo_info, cell_val, cell_last, cellOthers>>

CellNext ==
    \/ \E t \in Writers : CellFetched(t)
    \/ CellWanted
    \/ \E t \in CellTasks : CellLock(t)
    \/ \E t \in Writers : CellStoreFirst(t)
    \/ \E t \in Writers : CellStoreRest(t)
    \/ CellCloneFirst
    \/ CellCloneRest
    \/ \E t \in CellTasks : CellUnlock(t)

-----------------------------------------------------------------------------
(* Specifications: one component each, the others idle                     *)

VersionStart ==
    /\ VerInit
    /\ EnvIdle
    /\ FlagIdle
    /\ AutoIdle
    /\ WatchIdle
    /\ UpdIdle
    /\ MainIdle
    /\ TimerIdle
    /\ CellIdle

SpecVersion == VersionStart /\ [][VerNext]_vars

FlagStart ==
    /\ FlagInit
    /\ EnvIdle
    /\ VerIdle
    /\ AutoIdle
    /\ WatchIdle
    /\ UpdIdle
    /\ MainIdle
    /\ TimerIdle
    /\ CellIdle

SpecFlag == FlagStart /\ [][FlagNext]_vars

AutostartStart ==
    /\ AutoInit
    /\ VerIdle
    /\ FlagIdle
    /\ WatchIdle
    /\ UpdIdle
    /\ MainIdle
    /\ TimerIdle
    /\ CellIdle

SpecAutostart == AutostartStart /\ [][AutoNext]_vars

WatcherStartState ==
    /\ WatchInit
    /\ EnvIdle
    /\ VerIdle
    /\ FlagIdle
    /\ AutoIdle
    /\ UpdIdle
    /\ MainIdle
    /\ TimerIdle
    /\ CellIdle

SpecWatcher == WatcherStartState /\ [][WatchNext]_vars

RateStart ==
    /\ RateInit
    /\ VerIdle
    /\ FlagIdle
    /\ AutoIdle
    /\ WatchIdle
    /\ MainIdle
    /\ TimerIdle
    /\ CellIdle

SpecRateLimit == RateStart /\ [][RateNext]_vars

PendingStart ==
    /\ PendingInit
    /\ VerIdle
    /\ FlagIdle
    /\ AutoIdle
    /\ WatchIdle
    /\ MainIdle
    /\ TimerIdle
    /\ CellIdle

SpecPending == PendingStart /\ [][PendingNext]_vars

\* The whole program
Spec == Init /\ [][Next]_vars

\* main is inside the CheckUpdate handler, waiting for the forced check
\* (up to its 10 s timeout), with nothing fetched or stored so far
BusyStart ==
    /\ EnvIdle /\ VerIdle /\ FlagIdle /\ AutoIdle /\ WatchIdle /\ UpdIdle
    /\ TimerIdle
    /\ CellIdle
    /\ geo_info = None
    /\ cmd_q = <<>>
    /\ main_pc = "check_update"
    /\ per_pc = "tick"
    /\ current_autostart = FALSE
    /\ tray_autostart_enabled = FALSE
    /\ tray_update_available = None
    /\ tray_checking_update = TRUE
    /\ last_fetch = NoFetch
    /\ handled = CheckUpdate
    /\ cmd_dropped = FALSE
    /\ update_proc = "none"
    /\ tray_spawned = TRUE
    /\ new_version = None

\* A burst of menu activations while main is busy
SpecCmdQueue == BusyStart /\ [][MenuActivateBusy]_vars

\* The periodic refresh task with the clock
TimerStart ==
    /\ TimerIdle
    /\ CellIdle
    /\ EnvIdle
    /\ VerIdle
    /\ FlagIdle
    /\ AutoIdle
    /\ WatchIdle
    /\ UpdIdle
    /\ geo_info = None
    /\ cmd_q = <<>>
    /\ main_pc = "select"
    /\ per_pc = "unspawned"
    /\ current_autostart = FALSE
    /\ tray_autostart_enabled = FALSE
    /\ tray_update_available = None
    /\ tray_checking_update = FALSE
    /\ last_fetch = NoFetch
    /\ handled = "none"
    /\ cmd_dropped = FALSE
    /\ update_proc = "none"
    /\ tray_spawned = TRUE
    /\ new_version = None

SpecPeriodic == TimerStart /\ [][TimerNext]_vars

\* The location cell and the tasks that use it, main and the tasks running
CellStart ==
    /\ CellIdle
    /\ TimerIdle
    /\ EnvIdle
    /\ VerIdle
    /\ FlagIdle
    /\ AutoIdle
    /\ WatchIdle
    /\ UpdIdle
    /\ geo_info = None
    /\ cmd_q = <<>>
    /\ main_pc = "select"
    /\ per_pc = "tick"
    /\ current_autostart = FALSE
    /\ tray_autostart_enabled = FALSE
    /\ tray_update_available = None
    /\ tray_checking_update = FALSE
    /\ last_fetch = NoFetch
    /\ handled = "none"
    /\ cmd_dropped = FALSE
    /\ update_proc = "none"
    /\ tray_spawned = TRUE
    /\ new_version = None

SpecCell == CellStart /\ [][CellNext]_vars

\* main at its select! with the tray and the watcher running, nothing
\* fetched, stored or queued so far
QuitStart ==
    /\ EnvIdle /\ VerIdle /\ FlagIdle /\ AutoIdle /\ UpdIdle
    /\ TimerIdle
    /\ CellIdle
    /\ w_pc = "select"
    /\ was_connected = TRUE
    /\ last_connections = 0
    /\ w_pending = None
    /\ net_q = <<>>
    /\ net_rx_open = TRUE
    /\ w_count = 0
    /\ w_note = NoNote
    /\ w_state = 0
    /\ geo_info = None
    /\ cmd_q = <<>>
    /\ main_pc = "select"
    /\ per_pc = "tick"
    /\ current_autostart = FALSE
    /\ tray_autostart_enabled = FALSE
    /\ tray_update_available = None
    /\ tray_checking_update = FALSE
    /\ last_fetch = NoFetch
    /\ handled = "none"
    /\ cmd_dropped = FALSE
    /\ update_proc = "none"
    /\ tray_spawned = TRUE
    /\ new_version = None

\* main's loop with the tray's sends and the watcher's events
QuitNext ==
    \/ MenuActivateBehind
    \/ WatcherSends
    \/ HandleRefresh
    \/ RefreshFetched
    \/ HandleToggleAutostart
    \/ HandleCheckUpdate
    \/ CheckUpdateDone
    \/ HandleRunUpdate
    \/ RunUpdateSpawn
    \/ HandleQuit
    \/ HandleConnected
    \/ ConnectedSlept
    \/ ConnectedFetched
    \/ HandleDisconnected

\* main.rs 155: the branch `Some(cmd) = cmd_rx.recv()` of the select! is
\* taken
CommandBranch ==
    \/ HandleRefresh
    \/ HandleToggleAutostart
    \/ HandleCheckUpdate
    \/ HandleRunUpdate
    \/ HandleQuit

\* select! picks among its ready branches at random, so a command branch
\* that is ready again and again is taken in the end; every await inside a
\* handler completes (the fetches and the update check have timeouts, the
\* sleep is 2 s).  Nothing is assumed of the tray, of the watcher or of the
\* network-event branch.
QuitFairness ==
    /\ SF_vars(CommandBranch)
    /\ WF_vars(RefreshFetched)
    /\ WF_vars(CheckUpdateDone)
    /\ WF_vars(RunUpdateSpawn)
    /\ WF_vars(ConnectedSlept)
    /\ WF_vars(ConnectedFetched)

SpecQuit == QuitStart /\ [][QuitNext]_vars /\ QuitFairness

-----------------------------------------------------------------------------
(* C6                                                                      *)

\* The triple the specification assigns to a well-formed version string:
\* its components in order, missing trailing ones 0.
TripleOf(v) ==
    LET cs == IF v = <<>> THEN <<>> ELSE Split(v, ".")
    IN  [i \in 1..3 |-> IF i <= Len(cs) THEN DigitsValue(cs[i]) ELSE 0]

LexGreater(s, t) ==
    \E i \in 1..3 : s[i] > t[i] /\ \A j \in 1..(i - 1) : s[j] = t[j]

\* C6: on version strings of at most three dot-separated unsigned integer
\* components, is_newer_version(a, b) is exactly "triple(a) is
\* lexicographically greater than triple(b)", and it is a strict total order
\* on triples: irreflexive, asymmetric, transitive, and total on different
\* triples.
C6_StrictTotalOrder ==
    ver_out # None =>
        /\ Unwrap(ver_out).ab = LexGreater(TripleOf(ver_a), TripleOf(ver_b))
        /\ Unwrap(ver_out).ba = LexGreater(TripleOf(ver_b), TripleOf(ver_a))
        /\ ~Unwrap(ver_out).aa
        /\ ~(Unwrap(ver_out).ab /\ Unwrap(ver_out).ba)
        /\ (Unwrap(ver_out).ab /\ Unwrap(ver_out).bc) => Unwrap(ver_out).ac
        /\ TripleOf(ver_a) # TripleOf(ver_b) => (Unwrap(ver_out).ab \/ Unwrap(ver_out).ba)

\* "10" against "2" in the last place: numeric, not textual, and decided by
\* the third component; the two-component "0.2" equals "0.2.0".
C6_Witness ==
    /\ ver_out # None
    /\ ver_a = <<"0", ".", "2", ".", "1", "0">>
    /\ ver_b = <<"0", ".", "2", ".", "2">>
    /\ ver_c = <<"0", ".", "2">>
    /\ Unwrap(ver_out).ab /\ Unwrap(ver_out).bc /\ Unwrap(ver_out).ac

-----------------------------------------------------------------------------
(* C8                                                                      *)

\* C8: is_autostart_enabled is true right after a setup_autostart that
\* succeeded and false right after a remove_autostart that succeeded;
\* remove_autostart with no entry (the path resolving) returns Ok and changes
\* nothing; setup_autostart over an existing entry is stopped only by an
\* environment failure (executable path, I/O), never by the entry, and on
\* success the entry holds the descriptor of the running executable.
C8_AutostartRoundTrip ==
    /\ (as_last.op = "setup" /\ as_last.ret = Ok) => is_autostart_enabled
    /\ (as_last.op = "remove" /\ as_last.ret = Ok) => ~is_autostart_enabled
    /\ (as_last.op = "remove" /\ as_last.file = None /\ has_config) =>
           /\ as_last.ret = Ok
           /\ as_file = as_last.file
           /\ as_dir = as_last.dir
    /\ (as_last.op = "setup" /\ IsSome(as_last.file)) =>
           /\ as_last.ret \in {Ok, "NoExePath", "Io"}
           /\ as_last.ret = "NoExePath" <=> as_exe = None
           /\ as_last.ret = Ok =>
                  as_file = Some(create_desktop_content(Unwrap(as_exe)))
           /\ as_last.ret # Ok => as_file = as_last.file

\* A setup that replaced the descriptor of another installation.
C8_Witness ==
    /\ as_last.op = "setup"
    /\ as_last.ret = Ok
    /\ IsSome(as_last.file)
    /\ as_last.file # as_file
    /\ is_autostart_enabled

-----------------------------------------------------------------------------
(* C9                                                                      *)

CasePartners(a, b) == a = b \/ CharToLower(a) = b \/ CharToLower(b) = a

SameIgnoringCase(s, t) ==
    /\ Len(s) = Len(t)
    /\ \A i \in 1..Len(s) : CasePartners(s[i], t[i])

FlagImages == {FLAGS.map[k] : k \in DOMAIN FLAGS.map}

\* C9: get_flag returns a non-empty image for every code: the entry of the
\* lower-cased code when the table has it, otherwise the "xx" entry,
\* otherwise some entry of the table; two codes that differ only in letter
\* case get identical bytes.
C9_GetFlag ==
    IsSome(flag_out) =>
        LET r    == Unwrap(flag_out)
            code == to_lowercase(flag_code)
            xx   == <<"x", "x">>
        IN  /\ r.one # <<>>
            /\ r.two # <<>>
            /\ code \in DOMAIN FLAGS.map => r.one = FLAGS.map[code]
            /\ (code \notin DOMAIN FLAGS.map /\ xx \in DOMAIN FLAGS.map) =>
                   r.one = FLAGS.map[xx]
            /\ (code \notin DOMAIN FLAGS.map /\ xx \notin DOMAIN FLAGS.map) =>
                   r.one \in FlagImages
            /\ SameIgnoringCase(flag_code, flag_code2) => r.one = r.two

\* "US" and "us" both give the entry of us.
C9_Witness ==
    /\ IsSome(flag_out)
    /\ flag_code = <<"U", "S">>
    /\ flag_code2 = <<"u", "s">>
    /\ <<"u", "s">> \in DOMAIN FLAGS.map
    /\ Unwrap(flag_out).one = FLAGS.map[<<"u", "s">>]
    /\ Unwrap(flag_out).two = Unwrap(flag_out).one

-----------------------------------------------------------------------------
(* C1, C2                                                                  *)

\* C1: for every state notification with a readable value the watcher passes
\* an event to the channel exactly when is_connected(new state) differs from
\* was_connected, Connected when the new state is connected and Disconnected
\* otherwise; only code 70 is connected; after state 20 a 70 gives exactly
\* one Connected, after 70 a 70 gives nothing and a 60 exactly one
\* Disconnected.
C1_StateEdgeTriggered ==
    (w_note.kind = "state" /\ IsSome(w_note.val)) =>
        LET raw  == Unwrap(w_note.val)
            conn == raw = 70
        IN  /\ is_connected(NetworkStateFrom(raw)) = conn
            /\ w_note.sends =
                   (IF conn # w_note.was
                    THEN <<IF conn THEN "Connected" ELSE "Disconnected">>
                    ELSE <<>>)
            /\ (w_note.prev = 20 /\ raw = 70) => w_note.sends = <<"Connected">>
            /\ (w_note.prev = 70 /\ raw = 70) => w_note.sends = <<>>
            /\ (w_note.prev = 70 /\ raw = 60) => w_note.sends = <<"Disconnected">>

\* The Disconnected of 70 -> 60 has been delivered to the channel.
C1_Witness ==
    /\ w_note.kind = "state"
    /\ w_note.prev = 70
    /\ w_note.val = Some(60)
    /\ w_note.sends = <<"Disconnected">>
    /\ w_pc = "select"
    /\ net_q # <<>>
    /\ net_q[Len(net_q)] = "Disconnected"
    /\ ~was_connected

\* C2: for every active-connections notification with a readable list the
\* watcher passes Connected to the channel when the new count differs from
\* the last observed count and it believes it is connected, and passes
\* nothing when it believes it is not connected.
C2_CountChange ==
    (w_note.kind = "conn" /\ IsSome(w_note.val)) =>
        /\ (Unwrap(w_note.val) # w_note.last /\ w_note.was) =>
               w_note.sends = <<"Connected">>
        /\ ~w_note.was => w_note.sends = <<>>

\* The count went from 2 to 3 while connected: Connected is in the channel.
C2_Witness ==
    /\ w_note.kind = "conn"
    /\ w_note.val = Some(3)
    /\ w_note.last = 2
    /\ w_note.was
    /\ w_note.prev = 70
    /\ w_note.sends = <<"Connected">>
    /\ w_pc = "select"
    /\ net_q # <<>>
    /\ net_q[Len(net_q)] = "Connected"
    /\ last_connections = 3

-----------------------------------------------------------------------------
(* C3, C4, C5                                                              *)

\* C3: when no timestamp write has failed, any two network requests made by
\* check_for_update are at least CHECK_INTERVAL_SECS apart, whatever forced
\* checks were made in between.
C3_RateLimit ==
    ~upd_write_failed =>
        \A i \in DOMAIN upd_reqs : \A j \in DOMAIN upd_reqs :
            i < j => upd_reqs[j] - upd_reqs[i] >= CHECK_INTERVAL_SECS

\* Two requests exactly one interval apart, a forced check between them.
C3_Witness ==
    /\ ~upd_write_failed
    /\ Len(upd_reqs) = 2
    /\ upd_reqs[2] - upd_reqs[1] = CHECK_INTERVAL_SECS
    /\ upd_last.op = "check_for_update"
    /\ upd_last.requested
    /\ upd_last.after_forced

\* The timestamp a file last-check holds, Err when it counts as never
\* checked: absent, unreadable or no number
StoredTimestamp(f) == IF f.kind = "text" THEN ParseU64(Trim(f.text)) ELSE Err

\* C4: with a configuration directory and a working write, a call of
\* check_for_update that finds a timestamp less than 24 hours before the
\* clock returns None, makes no request and leaves the timestamp; any other
\* call (24 hours or more elapsed, or no usable timestamp) makes the
\* request and stores the clock as the new timestamp, whatever the answer.
C4_SingleCall ==
    (/\ upd_last.op \in {"check_for_update", "check_for_update_panic"}
     /\ has_config
     /\ upd_last.write_ok) =>
        LET stored == StoredTimestamp(upd_last.file)
        IN  /\ upd_last.op = "check_for_update"
            /\ IF IsSome(stored)
                  /\ upd_last.at - Unwrap(stored) < CHECK_INTERVAL_SECS
               THEN /\ ~upd_last.requested
                    /\ upd_last.ret = None
                    /\ last_check_file = upd_last.file
               ELSE /\ upd_last.requested
                    /\ last_check_file = Text(to_string(upd_last.at))

\* C5: check_for_update_forced makes the request whatever last-check holds,
\* returns what check_for_update_internal gives for the answer, as a
\* check_for_update that makes the request does, and leaves last-check as it
\* was.
C5_ForcedFrame ==
    /\ upd_last.op = "check_for_update_forced" =>
           /\ upd_last.requested
           /\ upd_last.ret = check_for_update_internal(upd_last.resp)
           /\ last_check_file = upd_last.file
    /\ (upd_last.op = "check_for_update" /\ upd_last.requested) =>
           upd_last.ret = check_for_update_internal(upd_last.resp)

\* A forced check that found an update while the timestamp was fresh.
C5_Witness ==
    /\ upd_last.op = "check_for_update_forced"
    /\ should_check = "false"
    /\ upd_reqs # <<>>
    /\ upd_last.ret = Some(<<"v", "0", ".", "2", ".", "0">>)
    /\ last_check_file = upd_last.file
    /\ last_check_file.kind = "text"

-----------------------------------------------------------------------------
(* C7                                                                      *)

\* The stored text names a version strictly newer than VERSION.
StoredIsNewer(f) ==
    LexGreater(
        LET ps == parse(TrimStartMatches(Trim(f.text), "v"))
        IN  [i \in 1..3 |-> PartAt(ps, i - 1)],
        [i \in 1..3 |-> PartAt(parse(VERSION), i - 1)])

\* C7 as stated: a load that finds a value not strictly newer returns None
\* and the file is gone; a load following it returns None; a load that
\* finds a strictly newer value returns it and leaves the file.
C7_LoadStaleAsStated ==
    upd_last.op = "load" =>
        /\ (upd_last.file.kind = "text" /\ ~StoredIsNewer(upd_last.file)) =>
               (upd_last.ret = None /\ update_file = Absent)
        /\ upd_last.prev = "load_stale" => upd_last.ret = None
        /\ (upd_last.file.kind = "text" /\ StoredIsNewer(upd_last.file)) =>
               /\ upd_last.ret = Some(Trim(upd_last.file.text))
               /\ update_file = upd_last.file

\* C7 amended: as stated, except that the file is gone when its removal
\* succeeded and is left as it was when the removal failed.
C7_LoadStale ==
    upd_last.op = "load" =>
        /\ (upd_last.file.kind = "text" /\ ~StoredIsNewer(upd_last.file)) =>
               /\ upd_last.ret = None
               /\ upd_last.write_ok => update_file = Absent
               /\ ~upd_last.write_ok => update_file = upd_last.file
        /\ upd_last.prev = "load_stale" => upd_last.ret = None
        /\ (upd_last.file.kind = "text" /\ StoredIsNewer(upd_last.file)) =>
               /\ upd_last.ret = Some(Trim(upd_last.file.text))
               /\ update_file = upd_last.file

\* The second of two loads: the first removed a stale value.
C7_Witness ==
    /\ upd_last.op = "load"
    /\ upd_last.prev = "load_stale"
    /\ upd_last.file = Absent
    /\ upd_last.ret = None
    /\ update_file = Absent

-----------------------------------------------------------------------------
(* C10                                                                     *)

\* C10: after a fetch of the periodic task, of Refresh or of Connected has
\* failed, the location cell holds what it held before that fetch; after
\* one has succeeded it holds the location fetched.
C10_FailedFetchKeepsCell ==
    last_fetch.path \in {"periodic", "refresh", "connected"} =>
        IF last_fetch.ok
        THEN geo_info = last_fetch.info /\ IsSome(geo_info)
        ELSE geo_info = last_fetch.before

\* A failed fetch after Connected, with a location in the cell.
C10_Witness ==
    /\ last_fetch.path = "connected"
    /\ ~last_fetch.ok
    /\ last_fetch.before = Some(GeoVN)
    /\ geo_info = Some(GeoVN)

-----------------------------------------------------------------------------
(* C11                                                                     *)

\* C11: a step takes main out of its event loop only when the select! takes
\* Quit from the command channel or when the handler of RunUpdate, taken
\* from the command channel, reaches its break, and it then ends main
\* normally; no other command, no event, no failed fetch, check or
\* autostart call does.
C11_LoopLeftOnlyByQuitOrRunUpdate ==
    /\ [][(InLoop /\ ~InLoop') =>
              /\ main_pc' = "done"
              /\ \/ /\ main_pc = "select"
                    /\ cmd_q # <<>>
                    /\ Head(cmd_q) = Quit
                    /\ handled' = Quit
                 \/ main_pc = "run_update"]_vars
    /\ [][(main_pc # "run_update" /\ main_pc' = "run_update") =>
              /\ main_pc = "select"
              /\ cmd_q # <<>>
              /\ Head(cmd_q) = RunUpdate
              /\ handled' = RunUpdate]_vars

\* The loop left by Quit, with no location fetched and autostart off.
C11_Witness ==
    /\ main_pc = "done"
    /\ handled = Quit
    /\ geo_info = None
    /\ ~current_autostart

-----------------------------------------------------------------------------
(* C12                                                                     *)

\* C12: the command channel never holds more than CmdCapacity commands; an
\* activation with room in the channel puts its command behind the ones
\* waiting, and an activation with the channel full is dropped and leaves
\* the channel as it was.  The activation is one step: it does not wait.
C12_TrySendOnFullDrops ==
    /\ [](Len(cmd_q) <= CmdCapacity)
    /\ [][IF Len(cmd_q) < CmdCapacity
          THEN /\ \E cmd \in BurstCommands : cmd_q' = Append(cmd_q, cmd)
               /\ ~cmd_dropped'
          ELSE /\ cmd_q' = cmd_q
               /\ cmd_dropped']_vars

\* An activation was dropped with sixteen commands waiting.
C12_Witness ==
    /\ Len(cmd_q) = CmdCapacity
    /\ cmd_dropped
    /\ cmd_q[1] = Refresh
    /\ cmd_q[CmdCapacity] = ToggleAutostart

-----------------------------------------------------------------------------
(* C13                                                                     *)

\* C13: a call of check_for_update or check_for_update_forced whose request
\* fails (no answer, a body that is no JSON, JSON without tag_name) returns
\* None and ends normally; so does one that gets a release whose tag is not
\* newer than VERSION; what a call returns is None or the tag it got.
C13_FailedCheckGivesNone ==
    upd_last.requested =>
        /\ upd_last.op \in {"check_for_update", "check_for_update_forced"}
        /\ upd_pc = "run"
        /\ upd_last.resp.kind # "release" => upd_last.ret = None
        /\ (upd_last.resp.kind = "release"
            /\ ~StoredIsNewer(Text(upd_last.resp.tag))) => upd_last.ret = None
        /\ upd_last.ret \in {None, Some(upd_last.resp.tag)}

\* A rate-limited check that got JSON without tag_name.
C13_Witness ==
    /\ upd_last.op = "check_for_update"
    /\ upd_last.requested
    /\ upd_last.resp.kind = "no_tag_name"
    /\ upd_last.ret = None
    /\ upd_pc = "run"

-----------------------------------------------------------------------------
(* C14                                                                     *)

\* C14: the step in which the loop takes a Disconnected event off the
\* network channel (and no command off the command channel, which is how
\* Quit and RunUpdate empty both) leaves the location cell, the tracked autostart flag and
\* the tray's fields (autostart_enabled, update_available, checking_update)
\* as they were, and the loop goes on waiting.
C14_DisconnectedChangesNothing ==
    [][(/\ main_pc = "select"
        /\ net_q # <<>>
        /\ Head(net_q) = "Disconnected"
        /\ net_q' = Tail(net_q)
        /\ cmd_q' = cmd_q)
       => /\ UNCHANGED <<geo_info, current_autostart, tray_autostart_enabled,
                         tray_update_available, tray_checking_update>>
          /\ main_pc' = "select"]_vars

\* Disconnected handled while a location is known.
C14_Witness ==
    /\ handled = "Disconnected"
    /\ geo_info = Some(GeoVN)
    /\ main_pc = "select"

-----------------------------------------------------------------------------
(* C15                                                                     *)

\* C15: the step in which the loop takes ToggleAutostart off the command
\* channel has the effect on the file system of one call of
\* remove_autostart when current_autostart is TRUE and of one call of
\* setup_autostart when it is FALSE; current_autostart is inverted when
\* that call gave Ok and keeps its value when it gave an error, and the
\* tray's autostart_enabled ends equal to current_autostart.
C15_ToggleFollowsOutcome ==
    [][(/\ main_pc = "select"
        /\ cmd_q # <<>>
        /\ Head(cmd_q) = ToggleAutostart
        /\ cmd_q' = Tail(cmd_q))
       => /\ \E dir_ok \in BOOLEAN, io_ok \in BOOLEAN :
                LET r == IF current_autostart THEN remove_autostart(io_ok)
                         ELSE setup_autostart(dir_ok, io_ok)
                IN  /\ as_dir' = r.dir
                    /\ as_file' = r.file
                    /\ (r.ret = Ok) => current_autostart' = ~current_autostart
                    /\ (r.ret # Ok) =>
                          /\ current_autostart' = current_autostart
                          /\ tray_autostart_enabled' = tray_autostart_enabled
          /\ tray_autostart_enabled' = current_autostart']_vars

\* A toggle on a system without a config directory: setup_autostart gave
\* NoHomeDir, the flag and the tray still say disabled.
C15_Witness ==
    /\ handled = ToggleAutostart
    /\ ~has_config
    /\ ~current_autostart
    /\ ~tray_autostart_enabled
    /\ as_file = None

-----------------------------------------------------------------------------
(* C16                                                                     *)

-----------------------------------------------------------------------------
(* C17                                                                     *)

-----------------------------------------------------------------------------
(* C18                                                                     *)

\* The values the tray's update_available can have
UpdateAvailableValues == {None} \cup {Some(t) : t \in Tags}

\* C18: for every pair (checking_update, update_available) the update
\* section of the menu is one item: the disabled line of the running check
\* without a command when checking_update is TRUE, otherwise the enabled
\* line naming the version and sending RunUpdate when update_available is
\* set, otherwise the enabled line sending CheckUpdate; and the menu of a
\* tray whose checking_update is TRUE has no item sending CheckUpdate or
\* RunUpdate.
C18_UpdateSectionOneLine ==
    /\ \A c \in BOOLEAN, a \in UpdateAvailableValues :
          LET sec == update_section(c, a)
          IN  /\ Len(sec) = 1
              /\ c => /\ sec[1].label = <<"Checking for updates...">>
                       /\ ~sec[1].enabled
                       /\ sec[1].sends = NoCommand
              /\ (~c /\ IsSome(a)) =>
                       /\ sec[1].label = <<"Update to ", Unwrap(a),
                                            " (click to install)">>
                       /\ sec[1].enabled
                       /\ sec[1].sends = RunUpdate
              /\ (~c /\ ~IsSome(a)) =>
                       /\ sec[1].label = <<"Check for Updates">>
                       /\ sec[1].enabled
                       /\ sec[1].sends = CheckUpdate
    /\ tray_update_available \in UpdateAvailableValues
    /\ LET items == menu(tray_autostart_enabled, tray_checking_update,
                         tray_update_available)
       IN  /\ Len(items) = 4
           /\ tray_checking_update =>
                 \A i \in 1..Len(items) :
                     items[i].sends \notin {CheckUpdate, RunUpdate}
           /\ tray_checking_update => MenuCommands \cap {CheckUpdate, RunUpdate} = {}

\* A check running in a tray that already has a version to offer: the
\* menu shows the line of the running check only.
C18_Witness ==
    /\ tray_checking_update
    /\ IsSome(tray_update_available)
    /\ main_pc = "check_update"
    /\ MenuCommands = {Refresh, ToggleAutostart, Quit}

-----------------------------------------------------------------------------
(* C19                                                                     *)

\* C19: while the initial fetch has not completed there is no tray, no
\* periodic task and no watcher event, and nothing in either channel; the
\* step that completes it leaves the cell holding the location fetched, or
\* None when it failed, and main goes on to make the tray in both cases; the
\* step that spawns the tray service and the step that spawns the tasks
\* come after it.
C19_InitialFetchFirst ==
    /\ [](main_pc = "initial_fetch" =>
              /\ ~tray_spawned
              /\ per_pc = "unspawned"
              /\ cmd_q = <<>> /\ net_q = <<>>
              /\ geo_info = None
              /\ last_fetch = NoFetch)
    /\ [][(main_pc = "initial_fetch" /\ main_pc' # "initial_fetch") =>
              /\ main_pc' = "create_tray"
              /\ last_fetch'.path = "initial"
              /\ IF last_fetch'.ok
                 THEN geo_info' = last_fetch'.info /\ IsSome(geo_info')
                 ELSE geo_info' = None
              /\ ~tray_spawned' /\ per_pc' = "unspawned"]_vars
    /\ [][(~tray_spawned /\ tray_spawned') =>
              /\ main_pc = "create_tray"
              /\ last_fetch.path = "initial"
              /\ per_pc = "unspawned"]_vars
    /\ [][(per_pc = "unspawned" /\ per_pc' # "unspawned") =>
              /\ tray_spawned
              /\ last_fetch.path = "initial"]_vars
    /\ [][(net_q = <<>> /\ net_q' # <<>>) => per_pc # "unspawned"]_vars

\* The loop reached after an initial fetch that failed: the tray and the
\* tasks are there, the cell is empty.
C19_Witness ==
    /\ main_pc = "select"
    /\ tray_spawned
    /\ per_pc = "tick"
    /\ last_fetch.path = "initial"
    /\ ~last_fetch.ok
    /\ geo_info = None

-----------------------------------------------------------------------------
(* C20                                                                     *)

\* The positions of main before its loop, in the order of the code
StartupOrder ==
    [p \in {"initial_fetch", "create_tray", "startup_load", "startup_check",
            "startup_set", "spawn"} |->
        CASE p = "initial_fetch" -> 1
          [] p = "create_tray" -> 2
          [] p = "startup_load" -> 3
          [] p = "startup_check" -> 4
          [] p = "startup_set" -> 5
          [] p = "spawn" -> 6]

-----------------------------------------------------------------------------
(* C21                                                                     *)

\* C21: the k-th fetch of the periodic task starts k refresh intervals
\* after the task started, so none at its start, whatever the outcomes of
\* the fetches before it; the task is never anywhere but at a tick or in a
\* fetch once spawned, and between two fetches its next tick is due one
\* interval after the last fetch started.
C21_PeriodicCadence ==
    /\ \A k \in 1..Len(p_fetches) :
          p_fetches[k] = p_started + k * REFRESH_INTERVAL_SECS
    /\ p_pc \in {"unspawned", "skip", "tick", "fetch"}
    /\ p_pc \in {"unspawned", "skip"} => p_fetches = <<>>
    /\ p_pc = "fetch" => Len(p_outcomes) = Len(p_fetches) - 1
    /\ (p_pc = "tick" /\ p_fetches # <<>>) =>
          /\ Len(p_outcomes) = Len(p_fetches)
          /\ p_deadline = p_fetch_at + REFRESH_INTERVAL_SECS
          /\ p_now <= p_deadline

\* The second fetch has started, an interval after the first one, which
\* failed.
C21_Witness ==
    /\ Len(p_fetches) = 2
    /\ p_pc = "fetch"
    /\ p_outcomes = <<"failed">>
    /\ p_fetches[2] = p_fetches[1] + REFRESH_INTERVAL_SECS
    /\ p_started = MaxSpawnDelay

-----------------------------------------------------------------------------
(* C22                                                                     *)

\* C22: the step in which the watcher ends with an error changes nothing
\* of main, of the periodic task, of the tray or of the channels; with the
\* watcher ended, main at its select! can handle whichever command is at
\* the head of the command channel, the periodic task can fire and
\* complete its fetch, and no network event is in the channel or being
\* handled.
C22_WatcherErrorContained ==
    /\ [][(w_pc # "failed" /\ w_pc' = "failed") =>
              UNCHANGED <<mainVars, net_q, net_rx_open, autoVars, updVars>>]_vars
    /\ []((w_pc = "failed" /\ main_pc = "select" /\ cmd_q # <<>>) =>
              CASE Head(cmd_q) = Refresh -> ENABLED HandleRefresh
                [] Head(cmd_q) = ToggleAutostart -> ENABLED HandleToggleAutostart
                [] Head(cmd_q) = CheckUpdate -> ENABLED HandleCheckUpdate
                [] Head(cmd_q) = RunUpdate -> ENABLED HandleRunUpdate
                [] Head(cmd_q) = Quit -> ENABLED HandleQuit)
    /\ []((w_pc = "failed" /\ ~Exited /\ per_pc = "tick") =>
              ENABLED PeriodicTick)
    /\ []((w_pc = "failed" /\ ~Exited /\ per_pc = "fetch") =>
              ENABLED PeriodicFetched)
    /\ [](w_pc = "failed" =>
              /\ net_q = <<>>
              /\ main_pc \notin {"connected_sleep", "connected_fetch", "panicked"}
              /\ last_fetch.path # "connected")

\* A periodic fetch has stored a location and RunUpdate is waiting at the
\* select!, with the watcher ended.
C22_Witness ==
    /\ w_pc = "failed"
    /\ main_pc = "select"
    /\ last_fetch.path = "periodic"
    /\ last_fetch.ok
    /\ cmd_q = <<RunUpdate>>

-----------------------------------------------------------------------------
(* C23                                                                     *)

\* The values a cell that is not being written can have
CompleteCells == {None, Some(GeoVN), Some(GeoUS)}

\* C23: at most one task is between lock and unlock; whenever no writer is
\* in the middle of its store, and so whenever the tray reads, the cell is
\* None or the complete GeoInfo of one fetch, namely the one of the last
\* store completed; and what the tray has read is None or one complete
\* GeoInfo.
C23_CellConsistent ==
    /\ \A t, u \in CellTasks :
          (/\ cell_pc[t] \in {"first", "rest", "unlock"}
           /\ cell_pc[u] \in {"first", "rest", "unlock"}) => t = u
    /\ (\A t \in Writers : cell_pc[t] # "rest") =>
          /\ geo_info \in CompleteCells
          /\ geo_info = cell_last
    /\ cell_pc["tray"] \in {"first", "rest", "unlock"} =>
          \A t \in Writers : cell_pc[t] # "rest"
    /\ cell_pc["tray"] \in {"unlock", "idle"} =>
          cell_val["tray"] \in CompleteCells
    /\ cell_pc["tray"] = "unlock" => cell_val["tray"] = geo_info

\* The periodic task is in the middle of its store, the cell holds parts of
\* two fetches, and main and the tray both wait for the lock.
C23_Witness ==
    /\ lock_holder = "periodic"
    /\ cell_pc["periodic"] = "rest"
    /\ cell_pc["main"] = "lock"
    /\ cell_pc["tray"] = "lock"
    /\ geo_info \notin CompleteCells
    /\ cell_last = Some(GeoUS)
    /\ cell_val["periodic"] = Some(GeoVN)

-----------------------------------------------------------------------------
(* C24                                                                     *)

\* C24: when the watcher is back at its select! after a readable
\* active-connections notification, last_connections is the count of that
\* notification, whether was_connected held or not and whether the
\* notification gave an event or not; and a readable notification whose
\* count is the one stored, as after the same count was seen while not
\* connected, gives no event.
C24_CountAlwaysStored ==
    /\ (/\ w_note.kind = "conn"
        /\ IsSome(w_note.val)
        /\ w_pc = "select") => last_connections = Unwrap(w_note.val)
    /\ (/\ w_note.kind = "conn"
        /\ IsSome(w_note.val)
        /\ Unwrap(w_note.val) = w_note.last) =>
            /\ w_note.sends = <<>>
            /\ w_pc # "send_conn"

\* A count of 2 came while not connected, the state became ConnectedGlobal,
\* the count of 2 comes again: the only event is the Connected of the state
\* branch.
C24_Witness ==
    /\ w_count = 3
    /\ w_note.off = Some(2)
    /\ w_note.kind = "conn"
    /\ w_note.val = Some(2)
    /\ w_note.last = 2
    /\ w_note.was
    /\ w_note.sends = <<>>
    /\ last_connections = 2
    /\ w_state = 70
    /\ net_q = <<"Connected">>
    /\ w_pc = "select"

-----------------------------------------------------------------------------
(* C25                                                                     *)

\* C25: no step takes the location cell from holding a location to holding
\* none.
C25_CellNeverEmptied == [][IsSome(geo_info) => IsSome(geo_info')]_vars

\* The cell held a location when the fetch of a Refresh failed, and holds
\* it still.
C25_Witness ==
    /\ last_fetch.path = "refresh"
    /\ ~last_fetch.ok
    /\ last_fetch.before = Some(GeoUS)
    /\ geo_info = Some(GeoUS)
    /\ main_pc = "select"
    /\ per_pc = "tick"

-----------------------------------------------------------------------------
(* C26                                                                     *)

\* Mutant: net_tx itself is moved into the watcher task, main keeps none.
net_senders_moved ==
    IF w_pc \in {"start", "select", "send_state", "send_conn"}
    THEN {"watcher"} ELSE {}

\* The live senders of the network-event channel: net_tx is a local of main
\* from line 90 until main returns or unwinds, net_tx_clone is owned by the
\* watcher task from its spawn until watch_network_changes returns.
net_senders ==
    (IF main_pc # "initial_fetch" /\ ~Exited THEN {"main"} ELSE {})
    \cup (IF w_pc \in {"start", "select", "send_state", "send_conn"}
          THEN {"watcher"} ELSE {})

\* The live senders of the command channel: cmd_tx is a local of main from
\* line 87 until main returns or unwinds, its clone is a field of the tray
\* from NetworkTray::new on.
cmd_senders ==
    (IF main_pc # "initial_fetch" /\ ~Exited THEN {"main"} ELSE {})
    \cup (IF main_pc \notin {"initial_fetch", "create_tray"}
          THEN {"tray"} ELSE {})

\* mpsc::Receiver::recv on a channel holding q with the given live senders:
\* Some(item) while the channel holds one, None once it is empty and every
\* sender is dropped, pending otherwise.
recv(q, senders) ==
    IF q # <<>> THEN "some"
    ELSE IF senders = {} THEN "closed"
    ELSE "pending"

\* C26: while main is in its loop it holds a sender of the command channel
\* and one of the network-event channel, once the watcher has ended the
\* only one, so neither recv() of the select! gives None and no branch is
\* disabled.
C26_SendersKeptAlive ==
    InLoop =>
        /\ "main" \in cmd_senders
        /\ "main" \in net_senders
        /\ w_pc = "failed" => net_senders = {"main"}
        /\ recv(cmd_q, cmd_senders) # "closed"
        /\ recv(net_q, net_senders) # "closed"

\* The watcher has ended, both channels are empty: main waits at its
\* select! on two pending branches.
C26_Witness ==
    /\ main_pc = "select"
    /\ w_pc = "failed"
    /\ recv(cmd_q, cmd_senders) = "pending"
    /\ recv(net_q, net_senders) = "pending"
    /\ last_fetch.path = "refresh"

-----------------------------------------------------------------------------
(* C27                                                                     *)

\* C27: in the sequence of events the channel has accepted from the
\* watcher, between two Disconnected there is a Connected, and the first
\* event is not Disconnected when the baseline was not connected; after the
\* baseline was_connected changes only in the step in which the channel
\* accepts the event of the state branch, to what that event says.
C27_DisconnectedAlternates ==
    /\ [](\A i, j \in 1..Len(w_note.emitted) :
            (/\ i < j
             /\ w_note.emitted[i] = "Disconnected"
             /\ w_note.emitted[j] = "Disconnected") =>
                \E k \in (i + 1)..(j - 1) : w_note.emitted[k] = "Connected")
    /\ []((~w_note.base /\ w_note.emitted # <<>>) =>
             w_note.emitted[1] = "Connected")
    /\ [][(w_pc # "start" /\ was_connected' # was_connected) =>
             /\ w_pc = "send_state"
             /\ net_q' = Append(net_q, IF was_connected' THEN "Connected"
                                       ELSE "Disconnected")]_vars
    /\ [][(w_pc = "send_state" /\ w_pc' = "failed") =>
             UNCHANGED <<was_connected, net_q>>]_vars

\* Connected baseline; Disconnected, Connected and Disconnected again have
\* been accepted by the channel.
C27_Witness ==
    /\ w_note.base
    /\ w_note.emitted = <<"Disconnected", "Connected", "Disconnected">>
    /\ ~was_connected
    /\ w_pc = "select"

-----------------------------------------------------------------------------
(* C28                                                                     *)

\* C28: for a call of check_for_update that finds a parseable timestamp,
\* one later than the clock included, the difference `now - last_check` is
\* a u64 (not negative: both are u64), so that the call does not panic, and
\* with a timestamp later than the clock the call makes no request and
\* returns None.
C28_NoUnderflow ==
    (/\ upd_last.op \in {"check_for_update", "check_for_update_panic"}
     /\ has_config
     /\ IsSome(StoredTimestamp(upd_last.file))) =>
        LET last_check == Unwrap(StoredTimestamp(upd_last.file))
        IN  /\ upd_last.at - last_check >= 0
            /\ upd_last.op = "check_for_update"
            /\ last_check > upd_last.at =>
                   /\ ~upd_last.requested
                   /\ upd_last.ret = None

-----------------------------------------------------------------------------
(* C29                                                                     *)

\* main is in its loop and has not taken RunUpdate
Running ==
    main_pc \in {"select", "refresh_fetch", "check_update",
                 "connected_sleep", "connected_fetch"}

\* The marker holds the version the tray shows
MarkerMatches ==
    IsSome(tray_update_available) =>
        update_file = Text(Unwrap(tray_update_available))

\* A step gives the tray a version
SetsUpdateAvailable ==
    /\ IsSome(tray_update_available')
    /\ tray_update_available' # tray_update_available

\* A step removes the marker
ClearsMarker == update_file.kind # "absent" /\ update_file'.kind = "absent"

\* C29 as stated: when no file write has failed, a running main whose tray
\* holds a version has that version in the marker, every step that gives
\* the tray a version finds or leaves the marker holding it, and only the
\* handler of RunUpdate removes the marker.
C29_MarkerAsStated ==
    /\ []((~upd_write_failed /\ Running) => MarkerMatches)
    /\ [][(~upd_write_failed' /\ SetsUpdateAvailable) => MarkerMatches']_vars
    /\ [][ClearsMarker => (main_pc = "select" /\ main_pc' = "run_update")]_vars

\* C29: when the configuration directory resolves and no file write has
\* failed, a running main whose tray holds a version has that version in
\* the marker, every step that gives the tray a version finds or leaves the
\* marker holding it, and once the startup load is over only the handler
\* of RunUpdate removes the marker.
C29_MarkerMatchesTray ==
    /\ []((has_config /\ ~upd_write_failed /\ Running) => MarkerMatches)
    /\ [][(has_config /\ ~upd_write_failed' /\ SetsUpdateAvailable) =>
             MarkerMatches']_vars
    /\ [][(ClearsMarker /\ main_pc # "startup_load") =>
             (main_pc = "select" /\ main_pc' = "run_update")]_vars

\* A CheckUpdate has found v0.2.0 and no write has failed: marker and tray
\* both hold v0.2.0.
C29_Witness ==
    /\ has_config
    /\ ~upd_write_failed
    /\ main_pc = "select"
    /\ handled = CheckUpdateFound
    /\ tray_update_available = Some(<<"v", "0", ".", "2", ".", "0">>)
    /\ update_file = Text(<<"v", "0", ".", "2", ".", "0">>)

-----------------------------------------------------------------------------
(* C30                                                                     *)

\* Quit waits in the command channel
QuitQueued == \E i \in 1..Len(cmd_q) : cmd_q[i] = Quit

\* C30: the command channel changes only by a send that puts a command
\* behind those waiting, by main at its select! taking the oldest command,
\* which is then the one handled, or by main leaving its loop; once Quit is
\* in the channel main leaves its loop in the end; and after main has left
\* its loop no command is handled, those behind the Quit are dropped with
\* the channel.
C30_QuitEndsLoop ==
    /\ [][cmd_q' # cmd_q =>
             \/ \E cmd \in {Refresh, ToggleAutostart, CheckUpdate, RunUpdate,
                            Quit} : cmd_q' = Append(cmd_q, cmd)
             \/ /\ main_pc = "select"
                /\ cmd_q # <<>>
                /\ handled' = Head(cmd_q)
                /\ \/ cmd_q' = Tail(cmd_q)
                   \/ Head(cmd_q) = Quit /\ main_pc' = "done" /\ cmd_q' = <<>>
             \/ main_pc = "run_update" /\ main_pc' = "done" /\ cmd_q' = <<>>]_vars
    /\ QuitQueued ~> (main_pc = "done")
    /\ [][main_pc = "done" =>
             UNCHANGED <<main_pc, handled, cmd_q, geo_info, current_autostart,
                         tray_update_available, tray_checking_update>>]_vars

\* Quit waits with a Refresh behind it while main is inside the handler of
\* a Connected event and the next event already waits.
C30_Witness ==
    /\ cmd_q = <<Quit, Refresh>>
    /\ main_pc = "connected_fetch"
    /\ net_q # <<>>

====
